---- MODULE Spec2Model ----
(***************************************************************************)
(* A model of the Thrift Compact Protocol codec: the schema descriptors of *)
(* src/src/types.ts, the BufferReader of the same file and the             *)
(* BufferWriter of src/unnamed/part_001.                                   *)
(*                                                                         *)
(* JavaScript numbers that pass through a bitwise operator are 32-bit      *)
(* two's complement integers; they are kept here as integers of that range *)
(* and every bitwise operator is computed on their 32 bits.  BigInt values *)
(* are kept as two's complement bit vectors of BigWidth bits, wide enough  *)
(* for every intermediate value of a 64-bit quantity.                      *)
(***************************************************************************)
EXTENDS Integers, Sequences, FiniteSets, TLC

VARIABLES
  w,     \* the BufferWriter: buffer, cursor, prev_field_id, stack, err
  r,     \* the BufferReader: buffer, cursor, prev_field_id, stack, err
  pc,    \* the position of the call in progress
  arg,   \* the inputs of the call in progress
  ret    \* the value returned by the last completed operation

vars == <<w, r, pc, arg, ret>>

(***************************************************************************)
(* ThriftType                                                              *)
(***************************************************************************)
STOP == 0
TRUE_ == 1
FALSE_ == 2
BYTE == 3
INT_16 == 4
INT_32 == 5
INT_64 == 6
DOUBLE == 7
BINARY == 8
LIST == 9
SET == 10
MAP == 11
STRUCT == 12
FLOAT == 13
BOOLEAN_ == 161

(***************************************************************************)
(* Bounds of the model                                                     *)
(***************************************************************************)
\* width of the bit vectors that stand for BigInt values
BigWidth == 72

(***************************************************************************)
(* 32-bit integers and the bitwise operators of JavaScript                 *)
(***************************************************************************)
Two30 == 2^30
MaxInt32 == (Two30 - 1) + Two30
MinInt32 == (0 - Two30) - Two30

RECURSIVE SumBits(_, _)
SumBits(b, i) == IF i < 0 THEN 0 ELSE b[i] * 2^i + SumBits(b, i - 1)

\* the 32 bits of n, least significant first
ToBits32(n) ==
  LET m == IF n < 0 THEN (n + Two30) + Two30 ELSE n
  IN [i \in 0..31 |-> IF i = 31 THEN (IF n < 0 THEN 1 ELSE 0)
                                ELSE (m \div 2^i) % 2]

FromBits32(b) ==
  IF b[31] = 1 THEN (SumBits(b, 30) - Two30) - Two30 ELSE SumBits(b, 30)

BitAnd(a, b) ==
  LET x == ToBits32(a)
      y == ToBits32(b)
  IN FromBits32([i \in 0..31 |-> x[i] * y[i]])

BitOr(a, b) ==
  LET x == ToBits32(a)
      y == ToBits32(b)
  IN FromBits32([i \in 0..31 |-> IF x[i] + y[i] > 0 THEN 1 ELSE 0])

BitXor(a, b) ==
  LET x == ToBits32(a)
      y == ToBits32(b)
  IN FromBits32([i \in 0..31 |-> (x[i] + y[i]) % 2])

\* a << k: the shift count is taken modulo 32, the high bits are lost
Shl(a, k) ==
  LET x == ToBits32(a)
      s == k % 32
  IN FromBits32([i \in 0..31 |-> IF i >= s THEN x[i - s] ELSE 0])

\* a >> k: the sign-propagating shift
Sar(a, k) ==
  LET x == ToBits32(a)
      s == k % 32
  IN FromBits32([i \in 0..31 |-> IF i + s <= 31 THEN x[i + s] ELSE x[31]])

(***************************************************************************)
(* BigInt values as two's complement bit vectors                           *)
(***************************************************************************)
BigBits == 0..(BigWidth - 1)

\* BigInt(n) for a number n of the 32-bit range
BigOfInt(n) ==
  LET x == ToBits32(n)
  IN [i \in BigBits |-> IF i <= 31 THEN x[i] ELSE x[31]]

\* Number(b) for a BigInt b whose value is in 0..255
BigToByte(b) == SumBits(b, 7)

BigIsZero(b) == \A i \in BigBits : b[i] = 0

BigAnd(a, b) == [i \in BigBits |-> a[i] * b[i]]
BigOr(a, b) == [i \in BigBits |-> IF a[i] + b[i] > 0 THEN 1 ELSE 0]
BigXor(a, b) == [i \in BigBits |-> (a[i] + b[i]) % 2]
BigNot(a) == [i \in BigBits |-> 1 - a[i]]
BigShl(a, k) == [i \in BigBits |-> IF i >= k THEN a[i - k] ELSE 0]
BigSar(a, k) ==
  [i \in BigBits |-> IF i + k <= BigWidth - 1 THEN a[i + k] ELSE a[BigWidth - 1]]
\* -(b) for b = 0n or 1n
BigNegBit(b) == [i \in BigBits |-> b[0]]

(***************************************************************************)
(* The schema descriptors.  A struct's shape is the sequence of its fields *)
(* in declaration order, each with its name.                               *)
(***************************************************************************)
TBinaryType == {"STRING", "BINARY"}

t_boolean == [thrift_type |-> BOOLEAN_]
t_byte == [thrift_type |-> BYTE]
t_int16 == [thrift_type |-> INT_16]
t_int32 == [thrift_type |-> INT_32]
t_int64 == [thrift_type |-> INT_64]
t_binary(type) == [thrift_type |-> BINARY, type |-> type]
t_list(item) == [thrift_type |-> LIST, item |-> item]
t_set(item) == [thrift_type |-> SET, item |-> item]
t_map(keyType, valueType) ==
  [thrift_type |-> MAP, key |-> keyType, value |-> valueType]
t_field(name, number, type) ==
  [name |-> name, number |-> number, type |-> type, isOptional |-> FALSE]
t_struct(shape) == [thrift_type |-> STRUCT, shape |-> shape]

\* isThriftBoolean without the wire tag FALSE
Mut_isThriftBoolean_trueOnly(type) == BitAnd(type, 15) = TRUE_

isThriftBoolean(type) ==
  LET t == BitAnd(type, 15)
  IN t = TRUE_ \/ t = FALSE_ \/ t = BOOLEAN_

(***************************************************************************)
(* Values.  A boolean is a boolean, a byte, i16 or i32 a number, an i64 a  *)
(* BigInt, a string [str |-> its code points], a Buffer [buf |-> its       *)
(* bytes], a list or set a sequence, an object (a map or a struct) the     *)
(* function from its keys to their values.                                 *)
(***************************************************************************)
EmptyObject == [k \in {} |-> 0]

\* Object.assign(o, {[k]: v})
ObjectAssign(o, k, v) ==
  [x \in (DOMAIN o) \cup {k} |-> IF x = k THEN v ELSE o[x]]

IsString(val) == "str" \in DOMAIN val

\* Buffer.from(s, 'utf8') for code points below 2048
RECURSIVE Utf8Encode(_)
Utf8Encode(s) ==
  IF s = <<>> THEN <<>>
  ELSE LET c == Head(s)
       IN (IF c < 128 THEN <<c>>
           ELSE <<192 + (c \div 64), 128 + (c % 64)>>) \o Utf8Encode(Tail(s))

\* buf.toString('utf8'): one- and two-byte sequences; a byte that starts no
\* well-formed sequence decodes to U+FFFD
RECURSIVE Utf8Decode(_)
Utf8Decode(b) ==
  IF b = <<>> THEN <<>>
  ELSE IF b[1] < 128 THEN <<b[1]>> \o Utf8Decode(Tail(b))
  ELSE IF /\ b[1] >= 194 /\ b[1] <= 223 /\ Len(b) >= 2
          /\ b[2] >= 128 /\ b[2] <= 191
       THEN <<(b[1] - 192) * 64 + (b[2] - 128)>> \o Utf8Decode(Tail(Tail(b)))
       ELSE <<65533>> \o Utf8Decode(Tail(b))

\* the field of a shape with a given name
FieldNamed(shape, name) ==
  shape[CHOOSE i \in 1..Len(shape) : shape[i].name = name]

ShapeNames(shape) == {shape[i].name : i \in 1..Len(shape)}

\* Object.entries(val) of a map: its keys in the order of the object's own
\* properties.  Integer keys come in ascending order; string keys come in
\* the order of insertion, which the value does not show: one order is
\* taken.
RECURSIVE MapKeys(_, _)
MapKeys(keys, key_type) ==
  IF keys = {} THEN <<>>
  ELSE LET k == IF key_type = BINARY
                THEN CHOOSE x \in keys : TRUE
                ELSE CHOOSE x \in keys : \A y \in keys : x <= y
       IN <<k>> \o MapKeys(keys \ {k}, key_type)

(***************************************************************************)
(* BufferWriter                                                            *)
(***************************************************************************)
NewWriter ==
  [buffer |-> <<>>, cursor |-> 0, prev_field_id |-> 0, stack |-> <<>>,
   err |-> "none"]

\* an exception leaves the call: nothing after it runs
WThrow(wr, e) == IF wr.err = "none" THEN [wr EXCEPT !.err = e] ELSE wr

W_push_stack(wr) ==
  IF wr.err # "none" THEN wr
  ELSE [wr EXCEPT !.stack = Append(@, wr.prev_field_id), !.prev_field_id = 0]

W_pop_stack(wr) ==
  IF wr.err # "none" THEN wr
  ELSE IF Len(wr.stack) > 0
       THEN [wr EXCEPT !.prev_field_id = wr.stack[Len(wr.stack)],
                       !.stack = SubSeq(@, 1, Len(@) - 1)]
       ELSE wr

\* writeBuffer(buf): append and move the cursor
writeBuffer(wr, buf) ==
  IF wr.err # "none" THEN wr
  ELSE [wr EXCEPT !.buffer = @ \o buf, !.cursor = @ + Len(buf)]

\* Buffer.writeUInt8 rejects a value outside 0..255 with a RangeError
_write_byte(wr, byte) ==
  IF wr.err # "none" THEN wr
  ELSE IF byte \notin 0..255 THEN WThrow(wr, "RangeError")
  ELSE writeBuffer(wr, <<byte>>)

bigintToZigZag(n) == BigXor(BigShl(n, 1), BigSar(n, 63))

toZigZag(n, bits) == BitXor(Shl(n, 1), Sar(n, bits - 1))

RECURSIVE _write_varint(_, _)
_write_varint(wr, num) ==
  LET byte == BitAnd(num, -128)
  IN IF wr.err # "none" THEN wr
     ELSE IF byte = 0 THEN _write_byte(wr, num)
     ELSE IF byte = -128 THEN _write_byte(wr, 0)
     ELSE _write_varint(_write_byte(wr, BitOr(BitAnd(num, 255), 128)),
                        Sar(num, 7))

RECURSIVE _write_bigint_varint(_, _)
_write_bigint_varint(wr, n) ==
  IF wr.err # "none" THEN wr
  ELSE IF BigIsZero(BigAnd(n, BigNot(BigOfInt(127))))
       THEN _write_byte(wr, BigToByte(n))
       ELSE _write_bigint_varint(
              _write_byte(wr, BigToByte(BigOr(BigAnd(n, BigOfInt(127)),
                                              BigOfInt(128)))),
              BigSar(n, 7))

_write_word(wr, val) == _write_varint(wr, toZigZag(val, 16))

_write_int(wr, val) == _write_varint(wr, toZigZag(val, 32))

_write_long(wr, val) == _write_bigint_varint(wr, bigintToZigZag(val))

\* a _write_field_begin that takes a delta of 16 for a short one
Mut_write_field_begin_delta16(wr, field_id, type) ==
  LET delta == field_id - wr.prev_field_id
      hdr == IF 0 < delta /\ delta <= 16
             THEN _write_byte(wr, BitOr(Shl(delta, 4), type))
             ELSE _write_word(_write_byte(wr, type), field_id)
  IN IF hdr.err # "none" THEN hdr ELSE [hdr EXCEPT !.prev_field_id = field_id]

_write_field_begin(wr, field_id, type) ==
  LET delta == field_id - wr.prev_field_id
      hdr == IF 0 < delta /\ delta < 16
             THEN _write_byte(wr, BitOr(Shl(delta, 4), type))
             ELSE _write_word(_write_byte(wr, type), field_id)
  IN IF hdr.err # "none" THEN hdr ELSE [hdr EXCEPT !.prev_field_id = field_id]

_write_string(wr, val) ==
  LET buf == IF IsString(val) THEN Utf8Encode(val.str) ELSE val.buf
  IN writeBuffer(_write_varint(wr, Len(buf)), buf)

write_stop(wr) == W_pop_stack(_write_byte(wr, STOP))

write_struct_begin(wr, field_id) ==
  W_push_stack(_write_field_begin(wr, field_id, STRUCT))

\* the field_id of write_val is <<>> when undefined and <<id>> otherwise
Undefined == <<>>

write_val(wr, field_id, type, val) ==
  IF wr.err # "none" THEN wr
  ELSE IF type = BOOLEAN_
  THEN IF field_id = Undefined
       THEN WThrow(wr, "booleans can only be used in structs")
       ELSE _write_field_begin(wr, field_id[1],
                               IF val THEN TRUE_ ELSE FALSE_)
  ELSE LET h == IF field_id # Undefined
                THEN _write_field_begin(wr, field_id[1], type)
                ELSE wr
       IN CASE type = BYTE -> _write_byte(h, val)
            [] type = INT_16 -> _write_word(h, val)
            [] type = INT_32 -> _write_int(h, val)
            [] type = INT_64 -> _write_long(h, val)
            [] type = BINARY -> _write_string(h, val)
            [] OTHER -> WThrow(h, "not supported by write_val")

\* val.forEach((v) => this.write_val(undefined, item_type, v))
RECURSIVE write_items(_, _, _, _)
write_items(wr, item_type, val, i) ==
  IF i > Len(val) \/ wr.err # "none" THEN wr
  ELSE write_items(write_val(wr, Undefined, item_type, val[i]),
                   item_type, val, i + 1)

\* a write_list that takes a length of 15 for a short one
Mut_write_list_short15(wr, field_id, item_type, val) ==
  LET h == _write_field_begin(wr, field_id, LIST)
      l == IF Len(val) <= 15
           THEN _write_byte(h, BitOr(Shl(Len(val), 4), item_type))
           ELSE _write_varint(_write_byte(h, BitOr(240, item_type)), Len(val))
  IN write_items(l, item_type, val, 1)

write_list(wr, field_id, item_type, val) ==
  LET h == _write_field_begin(wr, field_id, LIST)
      l == IF Len(val) < 15
           THEN _write_byte(h, BitOr(Shl(Len(val), 4), item_type))
           ELSE _write_varint(_write_byte(h, BitOr(240, item_type)), Len(val))
  IN write_items(l, item_type, val, 1)

RECURSIVE write_entries(_, _, _, _, _, _)
write_entries(wr, key_type, value_type, val, keys, i) ==
  IF i > Len(keys) \/ wr.err # "none" THEN wr
  ELSE write_entries(
         write_val(write_val(wr, Undefined, key_type, keys[i]),
                   Undefined, value_type, val[keys[i]]),
         key_type, value_type, val, keys, i + 1)

write_map(wr, field_id, key_type, value_type, val) ==
  LET h == _write_field_begin(wr, field_id, MAP)
      keys == MapKeys(DOMAIN val, key_type)
  IN IF Len(keys) = 0 THEN _write_byte(h, 0)
     ELSE write_entries(
            _write_byte(_write_varint(h, Len(keys)),
                        BitOr(Shl(BitAnd(key_type, 15), 4),
                              BitAnd(value_type, 15))),
            key_type, value_type, val, keys, 1)

RECURSIVE write_struct(_, _, _)
RECURSIVE write_struct_fields(_, _, _, _)

\* one turn of the forEach over the schema's shape
write_struct_field(wr, obj, field) ==
  LET type == field.type
      val == obj[field.name]
  IN IF field.name \notin DOMAIN obj THEN wr
     ELSE IF type.thrift_type = LIST \/ type.thrift_type = SET
          THEN write_list(wr, field.number, type.item.thrift_type, val)
     ELSE IF type.thrift_type = MAP
          THEN write_map(wr, field.number, type.key.thrift_type,
                         type.value.thrift_type, val)
     ELSE IF type.thrift_type = STRUCT
          THEN write_struct(write_struct_begin(wr, field.number), val, type)
     ELSE write_val(wr, <<field.number>>, type.thrift_type, val)

write_struct_fields(wr, obj, shape, i) ==
  IF i > Len(shape) \/ wr.err # "none" THEN wr
  ELSE write_struct_fields(write_struct_field(wr, obj, shape[i]),
                           obj, shape, i + 1)

\* write_struct without the stop byte of an empty object
Mut_write_struct_noStopWhenEmpty(wr, obj, struct) ==
  IF wr.err # "none" \/ DOMAIN obj = {} THEN wr
  ELSE write_stop(write_struct_fields(wr, obj, struct.shape, 1))

write_struct(wr, obj, struct) ==
  IF wr.err # "none" THEN wr
  ELSE write_stop(IF DOMAIN obj # {}
                  THEN write_struct_fields(wr, obj, struct.shape, 1)
                  ELSE wr)

\* the writer after the call; its buffer is returned unless err is set
thriftWriteFromObject(obj, struct) == write_struct(NewWriter, obj, struct)

(***************************************************************************)
(* BufferReader                                                            *)
(***************************************************************************)
\* the deepest nesting of calls of skip that the call stack of the engine
\* holds; a call beyond it throws RangeError (Maximum call stack size
\* exceeded)
MaxCallDepth == 8

\* depth is the number of calls of skip that have not returned
NewReader(buffer) ==
  [buffer |-> buffer, cursor |-> 0, prev_field_id |-> 0, stack |-> <<>>,
   err |-> "none", depth |-> 0]

RThrow(rd, e) == IF rd.err = "none" THEN [rd EXCEPT !.err = e] ELSE rd

R_push_stack(rd) ==
  IF rd.err # "none" THEN rd
  ELSE [rd EXCEPT !.stack = Append(@, rd.prev_field_id), !.prev_field_id = 0]

\* _pop_stack that leaves prev_field_id and the stack as they are
Mut_R_pop_stack_keeps(rd) == rd

R_pop_stack(rd) ==
  IF rd.err # "none" THEN rd
  ELSE IF Len(rd.stack) > 0
       THEN [rd EXCEPT !.prev_field_id = rd.stack[Len(rd.stack)],
                       !.stack = SubSeq(@, 1, Len(@) - 1)]
       ELSE rd

Min(a, b) == IF a < b THEN a ELSE b
Max(a, b) == IF a > b THEN a ELSE b

\* move(bytes): the cursor is clamped to 0..length; the value returned is the
\* NEW cursor less bytes
move(rd, bytes) ==
  LET moved(c) == [r |-> [rd EXCEPT !.cursor = c], v |-> c - bytes]
  IN moved(Min(Max(rd.cursor + bytes, 0), Len(rd.buffer)))

\* Buffer.readUInt8(offset): a RangeError when offset is outside the buffer
readByte(rd) ==
  LET readUInt8(m) ==
        IF m.v < 0 \/ m.v >= Len(rd.buffer)
        THEN [r |-> RThrow(m.r, "RangeError"), v |-> 0]
        ELSE [r |-> m.r, v |-> rd.buffer[m.v + 1]]
  IN IF rd.err # "none" THEN [r |-> rd, v |-> 0]
     ELSE readUInt8(move(rd, 1))

\* Buffer.readInt8(offset): the same byte read as a signed value
readSByte(rd) ==
  LET readInt8(b) == [r |-> b.r, v |-> IF b.v >= 128 THEN b.v - 256 ELSE b.v]
  IN readInt8(readByte(rd))

fromZigZag(n) == BitXor(Sar(n, 1), 0 - BitAnd(n, 1))

fromZigZagToBigInt(n) == BigXor(BigSar(n, 1), BigNegBit(BigAnd(n, BigOfInt(1))))

RECURSIVE readVarIntLoop(_, _, _)
readVarIntLoop(rd, shift, result) ==
  LET turn(b) ==
        LET next(res) ==
              IF BitAnd(b.v, 128) = 0
              THEN [r |-> b.r, v |-> res]
              ELSE readVarIntLoop(b.r, shift + 7, res)
        IN next(BitOr(result, Shl(BitAnd(b.v, 127), shift)))
  IN IF rd.err # "none" \/ ~(rd.cursor < Len(rd.buffer))
     THEN [r |-> rd, v |-> result]
     ELSE turn(readByte(rd))

readVarInt(rd) == readVarIntLoop(rd, 0, 0)

RECURSIVE readVarBigintLoop(_, _, _)
readVarBigintLoop(rd, shift, result) ==
  LET turn(b) ==
        LET next(res) ==
              IF BitAnd(b.v, 128) # 128
              THEN [r |-> b.r, v |-> res]
              ELSE readVarBigintLoop(b.r, shift + 7, res)
        IN next(BigOr(result,
                      BigShl(BigAnd(BigOfInt(b.v), BigOfInt(127)), shift)))
  IN IF rd.err # "none" \/ ~(rd.cursor < Len(rd.buffer))
     THEN [r |-> rd, v |-> result]
     ELSE turn(readByte(rd))

readVarBigint(rd) == readVarBigintLoop(rd, 0, BigOfInt(0))

\* Buffer.slice(start, end) after move(len): a negative start counts from
\* the end of the buffer
readBinary(rd, len) ==
  LET n == Len(rd.buffer)
      slice(m) ==
        LET sub(start, end) ==
              IF start < end THEN SubSeq(rd.buffer, start + 1, end) ELSE <<>>
        IN [r |-> m.r,
            v |-> sub(IF m.v < 0 THEN Max(n + m.v, 0) ELSE Min(m.v, n),
                      m.r.cursor)]
  IN IF rd.err # "none" THEN [r |-> rd, v |-> <<>>]
     ELSE slice(move(rd, len))

\* Buffer.readDoubleLE / readFloatLE at move(n): a RangeError unless the n
\* bytes lie in the buffer; the value is kept as its bytes
readFloating(rd, n) ==
  LET readLE(m) ==
        IF m.v < 0 \/ m.v + n > Len(rd.buffer)
        THEN [r |-> RThrow(m.r, "RangeError"), v |-> <<>>]
        ELSE [r |-> m.r, v |-> SubSeq(rd.buffer, m.v + 1, m.v + n)]
  IN IF rd.err # "none" THEN [r |-> rd, v |-> <<>>]
     ELSE readLE(move(rd, n))

read_field(rd) ==
  LET header(b) ==
        LET field(r2) ==
              [r |-> r2, type |-> BitAnd(b.v, 15), id |-> r2.prev_field_id]
            long(vi) ==
              IF vi.r.err # "none" THEN vi.r
              ELSE [vi.r EXCEPT !.prev_field_id = fromZigZag(vi.v)]
            short(delta) ==
              IF delta = 0 THEN long(readVarInt(b.r))
              ELSE [b.r EXCEPT !.prev_field_id = @ + delta]
        IN IF b.r.err # "none" \/ b.v = 0
           THEN [r |-> b.r, type |-> STOP, id |-> -1]
           ELSE field(short(Sar(BitAnd(b.v, 240), 4)))
  IN header(readByte(rd))

\* read_val that returns nothing for a type it does not implement
Mut_read_val_unknownIsNothing(rd, type) ==
  LET binary(b) == [r |-> b.r, v |-> [buf |-> b.v]]
      sized(n) == binary(readBinary(n.r, n.v))
      int(n) == [r |-> n.r, v |-> fromZigZag(n.v)]
      long(n) == [r |-> n.r, v |-> fromZigZagToBigInt(n.v)]
  IN IF rd.err # "none" THEN [r |-> rd, v |-> <<>>]
     ELSE CASE type = TRUE_ -> [r |-> rd, v |-> TRUE]
            [] type = FALSE_ -> [r |-> rd, v |-> FALSE]
            [] type = BYTE -> readSByte(rd)
            [] type = BINARY -> sized(readVarInt(rd))
            [] type = INT_16 \/ type = INT_32 -> int(readVarInt(rd))
            [] type = INT_64 -> long(readVarBigint(rd))
            [] type = DOUBLE -> readFloating(rd, 8)
            [] type = FLOAT -> readFloating(rd, 4)
            [] OTHER -> [r |-> rd, v |-> <<>>]

read_val(rd, type) ==
  LET binary(b) == [r |-> b.r, v |-> [buf |-> b.v]]
      sized(n) == binary(readBinary(n.r, n.v))
      int(n) == [r |-> n.r, v |-> fromZigZag(n.v)]
      long(n) == [r |-> n.r, v |-> fromZigZagToBigInt(n.v)]
  IN IF rd.err # "none" THEN [r |-> rd, v |-> <<>>]
     ELSE CASE type = TRUE_ -> [r |-> rd, v |-> TRUE]
            [] type = FALSE_ -> [r |-> rd, v |-> FALSE]
            [] type = BYTE -> readSByte(rd)
            [] type = BINARY -> sized(readVarInt(rd))
            [] type = INT_16 \/ type = INT_32 -> int(readVarInt(rd))
            [] type = INT_64 -> long(readVarBigint(rd))
            [] type = DOUBLE -> readFloating(rd, 8)
            [] type = FLOAT -> readFloating(rd, 4)
            [] OTHER -> [r |-> RThrow(rd, "not implemented"), v |-> <<>>]

read_list_header(rd) ==
  LET header(b) ==
        LET long(n) == [r |-> n.r, type |-> BitAnd(b.v, 15), length |-> n.v]
            sized(short) ==
              IF short = 15 THEN long(readVarInt(b.r))
              ELSE [r |-> b.r, type |-> BitAnd(b.v, 15), length |-> short]
        IN sized(Sar(b.v, 4))
  IN header(readByte(rd))

read_map_header(rd) ==
  LET header(b) ==
        LET sized(n) ==
              LET typed(types) ==
                    [r |-> types.r, key_type |-> Sar(types.v, 4),
                     value_type |-> BitAnd(types.v, 15), length |-> n.v]
              IN typed(readByte(n.r))
        IN IF b.r.err # "none" \/ b.v = 0
           THEN [r |-> b.r, key_type |-> STOP, value_type |-> STOP,
                 length |-> 0]
           ELSE sized(readVarInt([b.r EXCEPT !.cursor = rd.cursor]))
  IN header(readByte(rd))

RECURSIVE skip(_, _)
RECURSIVE skip_fields(_)
RECURSIVE skip_items(_, _, _, _)
RECURSIVE skip_pairs(_, _, _, _, _)

\* the while loop of skip(STRUCT)
skip_fields(rd) ==
  LET turn(f) ==
        IF f.r.err # "none" \/ f.type = STOP THEN f.r
        ELSE skip_fields(skip(f.r, f.type))
  IN IF rd.err # "none" \/ ~(rd.cursor < Len(rd.buffer)) THEN rd
     ELSE turn(read_field(rd))

skip_items(rd, item_type, length, i) ==
  IF rd.err # "none" \/ ~(i < length) THEN rd
  ELSE skip_items(skip(rd, item_type), item_type, length, i + 1)

skip_pairs(rd, key_type, value_type, length, i) ==
  IF rd.err # "none" \/ ~(i < length) THEN rd
  ELSE skip_pairs(skip(skip(rd, key_type), value_type),
                  key_type, value_type, length, i + 1)

skip(rd, type) ==
  LET items(h) == skip_items(h.r, h.type, h.length, 0)
      pairs(h) == skip_pairs(h.r, h.key_type, h.value_type, h.length, 0)
      called == [rd EXCEPT !.depth = @ + 1]
      return(r2) == IF r2.err # "none" THEN r2 ELSE [r2 EXCEPT !.depth = @ - 1]
      body(r1) ==
        CASE type = STRUCT -> R_pop_stack(skip_fields(R_push_stack(r1)))
          [] type = LIST \/ type = SET -> items(read_list_header(r1))
          [] type = MAP -> pairs(read_map_header(r1))
          [] OTHER -> read_val(r1, type).r
  IN IF rd.err # "none" THEN rd
     ELSE IF rd.depth >= MaxCallDepth THEN RThrow(rd, "RangeError")
     ELSE return(body(called))

RECURSIVE read_val_recursive(_, _)
RECURSIVE read_struct_loop(_, _, _)
RECURSIVE read_items(_, _, _, _, _)
RECURSIVE read_kvs(_, _, _, _, _, _)

\* Array(length).fill(null).map(... read_val_recursive(item) ...)
read_items(rd, item, length, i, acc) ==
  LET next(x) == read_items(x.r, item, length, i + 1, Append(acc, x.v))
  IN IF rd.err # "none" \/ ~(i < length) THEN [r |-> rd, v |-> acc]
     ELSE next(read_val_recursive(rd, item))

\* Object.fromEntries(Array(length).fill(null).map(... _read_kv ...))
read_kvs(rd, key, value, length, i, acc) ==
  LET _read_kv(k) ==
        LET next(x) ==
              IF x.r.err # "none" THEN [r |-> x.r, v |-> acc]
              ELSE read_kvs(x.r, key, value, length, i + 1,
                            ObjectAssign(acc, k.v, x.v))
        IN next(read_val_recursive(k.r, value))
  IN IF rd.err # "none" \/ ~(i < length) THEN [r |-> rd, v |-> acc]
     ELSE _read_kv(read_val_recursive(rd, key))

\* one turn of the while loop of read_struct, after its field header f
\* read_struct_field that reads the value of a boolean field from one byte
\* after the header
Mut_read_struct_field_booleanByte(rd, struct, response, f) ==
  LET shape == struct.shape
      assign(field, x) ==
        IF x.r.err # "none" THEN [r |-> x.r, v |-> response]
        ELSE [r |-> x.r, v |-> ObjectAssign(response, field.name, x.v)]
      boolean(field, b) ==
        [r |-> b.r, v |-> ObjectAssign(response, field.name, b.v = TRUE_)]
      typed(field, expected_type) ==
        IF field.type.thrift_type # expected_type
        THEN [r |-> RThrow(rd, "Mismatching type"), v |-> response]
        ELSE IF expected_type = BOOLEAN_
        THEN boolean(field, readByte(rd))
        ELSE assign(field, read_val_recursive(rd, field.type))
      find(found) ==
        IF found # {}
        THEN typed(shape[CHOOSE i \in found : \A j \in found : i <= j],
                   IF isThriftBoolean(f.type) THEN BOOLEAN_ ELSE f.type)
        ELSE [r |-> skip(rd, f.type), v |-> response]
  IN find({i \in 1..Len(shape) : shape[i].number = f.id})

read_struct_field(rd, struct, response, f) ==
  LET shape == struct.shape
      assign(field, x) ==
        IF x.r.err # "none" THEN [r |-> x.r, v |-> response]
        ELSE [r |-> x.r, v |-> ObjectAssign(response, field.name, x.v)]
      typed(field, expected_type) ==
        IF field.type.thrift_type # expected_type
        THEN [r |-> RThrow(rd, "Mismatching type"), v |-> response]
        ELSE IF expected_type = BOOLEAN_
        THEN [r |-> rd,
              v |-> ObjectAssign(response, field.name, f.type = TRUE_)]
        ELSE assign(field, read_val_recursive(rd, field.type))
      find(found) ==
        IF found # {}
        THEN typed(shape[CHOOSE i \in found : \A j \in found : i <= j],
                   IF isThriftBoolean(f.type) THEN BOOLEAN_ ELSE f.type)
        ELSE [r |-> skip(rd, f.type), v |-> response]
  IN find({i \in 1..Len(shape) : shape[i].number = f.id})

\* read_struct whose loop goes on after a stop byte
Mut_read_struct_loop_pastStop(rd, struct, response) ==
  LET turn(f) ==
        LET next(x) == read_struct_loop(x.r, struct, x.v)
        IN IF f.r.err # "none" THEN [r |-> f.r, v |-> response]
           ELSE IF f.type = STOP THEN read_struct_loop(f.r, struct, response)
           ELSE next(read_struct_field(f.r, struct, response, f))
  IN IF rd.err # "none" \/ ~(rd.cursor < Len(rd.buffer))
     THEN [r |-> rd, v |-> response]
     ELSE turn(read_field(rd))

read_struct_loop(rd, struct, response) ==
  LET turn(f) ==
        LET next(x) == read_struct_loop(x.r, struct, x.v)
        IN IF f.r.err # "none" \/ f.type = STOP
           THEN [r |-> f.r, v |-> response]
           ELSE next(read_struct_field(f.r, struct, response, f))
  IN IF rd.err # "none" \/ ~(rd.cursor < Len(rd.buffer))
     THEN [r |-> rd, v |-> response]
     ELSE turn(read_field(rd))

read_struct(rd, struct) == read_struct_loop(rd, struct, EmptyObject)

read_val_recursive(rd, field) ==
  LET struct(x) == [r |-> R_pop_stack(x.r), v |-> x.v]
      map(h) ==
        IF h.r.err # "none" THEN [r |-> h.r, v |-> <<>>]
        ELSE IF h.length = 0 THEN [r |-> h.r, v |-> EmptyObject]
        ELSE IF h.key_type # field.key.thrift_type
        THEN [r |-> RThrow(h.r, "Unexpected key type"), v |-> <<>>]
        ELSE IF h.value_type # field.value.thrift_type
        THEN [r |-> RThrow(h.r, "Unexpected value type"), v |-> <<>>]
        ELSE IF h.length < 0
        THEN [r |-> RThrow(h.r, "RangeError"), v |-> <<>>]
        ELSE read_kvs(h.r, field.key, field.value, h.length, 0, EmptyObject)
      list(h) ==
        IF h.r.err # "none" THEN [r |-> h.r, v |-> <<>>]
        ELSE IF h.length = 0 THEN [r |-> h.r, v |-> <<>>]
        ELSE IF h.type # field.item.thrift_type
        THEN [r |-> RThrow(h.r, "Unexpected item type"), v |-> <<>>]
        ELSE IF h.length < 0
        THEN [r |-> RThrow(h.r, "RangeError"), v |-> <<>>]
        ELSE read_items(h.r, field.item, h.length, 0, <<>>)
      string(b) == [r |-> b.r, v |-> [str |-> Utf8Decode(b.v)]]
      sized(n) == string(readBinary(n.r, n.v))
  IN IF rd.err # "none" THEN [r |-> rd, v |-> <<>>]
     ELSE IF field.thrift_type = STRUCT
     THEN IF Len(field.shape) = 0
          THEN [r |-> RThrow(rd, "No fields defined for struct"), v |-> <<>>]
          ELSE struct(read_struct(R_push_stack(rd), field))
     ELSE IF field.thrift_type = MAP
     THEN map(read_map_header(rd))
     ELSE IF field.thrift_type = LIST \/ field.thrift_type = SET
     THEN list(read_list_header(rd))
     ELSE IF field.thrift_type = BINARY /\ field.type = "STRING"
     THEN sized(readVarInt(rd))
     ELSE read_val(rd, field.thrift_type)

\* the reader after the call and the value returned unless err is set
thriftReadToObject(buffer, struct) == read_struct(NewReader(buffer), struct)

\* the errors that are ThriftError; a RangeError is Node's
ThriftErrors ==
  {"booleans can only be used in structs", "not supported by write_val",
   "not implemented", "No fields defined for struct", "Unexpected key type",
   "Unexpected value type", "Unexpected item type", "Mismatching type"}

(***************************************************************************)
(* Inputs of the numeric operations: the powers of two of the width, their *)
(* neighbours and their complements, which include both ends of each range *)
(***************************************************************************)
Int32Samples ==
  UNION {{2^k, 2^k - 1, 0 - 2^k, (0 - 2^k) - 1} : k \in 0..30}
    \cup {MaxInt32, MinInt32}

Int16Samples == {n \in Int32Samples : n >= -32768 /\ n <= 32767}

BigOnesBelow(k) == [i \in BigBits |-> IF i < k THEN 1 ELSE 0]
BigOneAt(k) == [i \in BigBits |-> IF i = k THEN 1 ELSE 0]

\* 2^k - 1 and 2^k and their complements -(2^k) and -(2^k) - 1, within the
\* signed 64-bit range
Int64Samples ==
  {BigOnesBelow(k) : k \in 0..63} \cup {BigOneAt(k) : k \in 0..62}
    \cup {BigNot(BigOnesBelow(k)) : k \in 0..63}
    \cup {BigNot(BigOneAt(k)) : k \in 0..62}

\* the unsigned 64-bit values 2^k - 1 and 2^k
Uint64Samples ==
  {BigOnesBelow(k) : k \in 0..64} \cup {BigOneAt(k) : k \in 0..63}

(***************************************************************************)
(* The numeric operations, each applied to an input of the samples.  A     *)
(* number n of 2^31..2^32-1 given to _write_varint is the 32-bit pattern   *)
(* n - 2^32: the bitwise operators of the writer see nothing else of it.   *)
(***************************************************************************)
InitNum ==
  /\ w = NewWriter
  /\ r = NewReader(<<>>)
  /\ pc = "idle"
  /\ arg = [n |-> 0]
  /\ ret = 0

ToZigZag ==
  /\ pc = "idle"
  /\ \E bits \in {16, 32} :
       \E n \in (IF bits = 16 THEN Int16Samples ELSE Int32Samples) :
         /\ arg' = [n |-> n, bits |-> bits]
         /\ ret' = toZigZag(n, bits)
  /\ pc' = "toZigZag"
  /\ UNCHANGED <<w, r>>

FromZigZag ==
  /\ pc = "toZigZag"
  /\ ret' = fromZigZag(ret)
  /\ pc' = "fromZigZag"
  /\ UNCHANGED <<w, r, arg>>

BigintToZigZag ==
  /\ pc = "idle"
  /\ \E n \in Int64Samples :
       /\ arg' = [n |-> n, bits |-> 64]
       /\ ret' = bigintToZigZag(n)
  /\ pc' = "bigintToZigZag"
  /\ UNCHANGED <<w, r>>

FromZigZagToBigInt ==
  /\ pc = "bigintToZigZag"
  /\ ret' = fromZigZagToBigInt(ret)
  /\ pc' = "fromZigZagToBigInt"
  /\ UNCHANGED <<w, r, arg>>

WriteVarint ==
  /\ pc = "idle"
  /\ \E n \in Int32Samples :
       /\ arg' = [n |-> n, bits |-> 32]
       /\ w' = _write_varint(NewWriter, n)
  /\ pc' = "_write_varint"
  /\ UNCHANGED <<r, ret>>

ReadVarInt ==
  /\ pc = "_write_varint"
  /\ LET res == readVarInt(NewReader(w.buffer))
     IN /\ r' = res.r
        /\ ret' = res.v
  /\ pc' = "readVarInt"
  /\ UNCHANGED <<w, arg>>

WriteBigintVarint ==
  /\ pc = "idle"
  /\ \E n \in Uint64Samples :
       /\ arg' = [n |-> n, bits |-> 64]
       /\ w' = _write_bigint_varint(NewWriter, n)
  /\ pc' = "_write_bigint_varint"
  /\ UNCHANGED <<r, ret>>

ReadVarBigint ==
  /\ pc = "_write_bigint_varint"
  /\ LET res == readVarBigint(NewReader(w.buffer))
     IN /\ r' = res.r
        /\ ret' = res.v
  /\ pc' = "readVarBigint"
  /\ UNCHANGED <<w, arg>>

NextNum ==
  \/ ToZigZag
  \/ FromZigZag
  \/ BigintToZigZag
  \/ FromZigZagToBigInt
  \/ WriteVarint
  \/ ReadVarInt
  \/ WriteBigintVarint
  \/ ReadVarBigint

SpecNum == InitNum /\ [][NextNum]_vars

(***************************************************************************)
(* C4.  Zigzag laws: fromZigZag(toZigZag(n, w)) = n for w = 16 and w = 32  *)
(* and every n of the signed w-bit range, both ends included, and          *)
(* fromZigZagToBigInt(bigintToZigZag(n)) = n for every n of the signed     *)
(* 64-bit range.                                                           *)
(***************************************************************************)
C4_ZigZagLaws ==
  pc \in {"fromZigZag", "fromZigZagToBigInt"} => ret = arg.n

(***************************************************************************)
(* C5.  Varint laws: for every unsigned n of the target width (below 2^32  *)
(* for _write_varint and readVarInt, below 2^64 for the BigInt pair) the   *)
(* reader returns n from the bytes the writer emitted, the number of bytes *)
(* is max(1, ceil(bitlength(n) / 7)), and the continuation bit is set on   *)
(* every byte but the last.                                                *)
(***************************************************************************)
\* the number of significant bits of a bit vector b of width n
RECURSIVE BitLength(_, _)
BitLength(b, n) ==
  IF n = 0 THEN 0 ELSE IF b[n - 1] = 1 THEN n ELSE BitLength(b, n - 1)

VarintLength(bitlength) == Max(1, (bitlength + 6) \div 7)

ContinuationBits(buffer) ==
  /\ Len(buffer) >= 1
  /\ \A i \in 1..(Len(buffer) - 1) : buffer[i] >= 128
  /\ buffer[Len(buffer)] < 128

\* the number x returned is the unsigned value of the 32-bit pattern k
IsUint32(x, k) == k >= 0 /\ x = k

C5_VarintLaws ==
  /\ pc = "readVarInt" =>
       /\ w.err = "none" /\ r.err = "none"
       /\ IsUint32(ret, arg.n)
       /\ Len(w.buffer) = VarintLength(BitLength(ToBits32(arg.n), 32))
       /\ ContinuationBits(w.buffer)
  /\ pc = "readVarBigint" =>
       /\ w.err = "none" /\ r.err = "none"
       /\ ret = arg.n
       /\ Len(w.buffer) = VarintLength(BitLength(arg.n, BigWidth))
       /\ ContinuationBits(w.buffer)

(***************************************************************************)
(* Field headers: one struct frame of the writer, its field headers        *)
(* written one after the other in ascending order of field number.         *)
(***************************************************************************)
\* the most field headers written in one frame
MaxHeaders == 3

\* field numbers around the gaps of 15 and 16, those whose zigzag varint
\* takes two and three bytes, and both sides of 2^15 up to the largest
\* 16-bit number; _write_word writes them as 16-bit words
HeaderFieldNumbers ==
  {1, 2, 15, 16, 17, 18, 32, 33, 49, 64, 8192, 32767, 32768, 32783, 65535}

HeaderTypes == {TRUE_, STRUCT}

InitHdr ==
  /\ w = NewWriter
  /\ r = NewReader(<<>>)
  /\ pc = "frame"
  /\ arg = [ids |-> <<>>, types |-> <<>>, hdrs |-> <<>>]
  /\ ret = 0

WriteFieldBegin ==
  /\ pc = "frame"
  /\ Len(arg.ids) < MaxHeaders
  /\ \E id \in HeaderFieldNumbers, type \in HeaderTypes :
       /\ \A i \in 1..Len(arg.ids) : arg.ids[i] < id
       /\ w' = _write_field_begin(w, id, type)
       /\ arg' = [ids |-> Append(arg.ids, id),
                  types |-> Append(arg.types, type),
                  hdrs |-> Append(arg.hdrs,
                                  SubSeq(w'.buffer, Len(w.buffer) + 1,
                                         Len(w'.buffer)))]
  /\ UNCHANGED <<r, pc, ret>>

WriteStop ==
  /\ pc = "frame"
  /\ Len(arg.ids) >= 1
  /\ w' = write_stop(w)
  /\ pc' = "stopped"
  /\ UNCHANGED <<r, arg, ret>>

NextHdr ==
  \/ WriteFieldBegin
  \/ WriteStop

SpecHdr == InitHdr /\ [][NextHdr]_vars

(***************************************************************************)
(* C6.  Field delta encoding: with the fields of a struct written in       *)
(* ascending order of field number, if every gap between consecutive field *)
(* numbers (the first counted from 0) is between 1 and 15 then every       *)
(* header is the one byte (delta << 4) | type; if exactly one gap is 16 or *)
(* more, that field's header alone is the long form, the type byte         *)
(* followed by the zigzag varint of the field number, and the fields after *)
(* it are one byte again.                                                  *)
(***************************************************************************)
Gap(ids, i) == ids[i] - (IF i = 1 THEN 0 ELSE ids[i - 1])

\* the bytes of the unsigned varint of n, by the definition of the format
RECURSIVE VarintBytes(_)
VarintBytes(n) ==
  IF n < 128 THEN <<n>> ELSE <<(n % 128) + 128>> \o VarintBytes(n \div 128)

ShortHeader(ids, types, i) == <<Gap(ids, i) * 16 + types[i]>>

\* zigzag(n, 16) = (n << 1) ^ (n >> 15) for a field number n of 0..65535:
\* n >> 15 is 0 below 2^15 and 1 from there on
ZigZag16(n) == 2 * n + (n \div 32768)

LongHeader(ids, types, i) == <<types[i]>> \o VarintBytes(ZigZag16(ids[i]))

C6_FieldDeltaEncoding ==
  LET n == Len(arg.ids)
      small == {i \in 1..n : Gap(arg.ids, i) \in 1..15}
      large == {i \in 1..n : Gap(arg.ids, i) >= 16}
  IN /\ w.err = "none"
     /\ small = 1..n =>
          \A i \in 1..n : arg.hdrs[i] = ShortHeader(arg.ids, arg.types, i)
     /\ (Cardinality(large) = 1 /\ small \cup large = 1..n) =>
          /\ \A i \in large : arg.hdrs[i] = LongHeader(arg.ids, arg.types, i)
          /\ \A i \in small : arg.hdrs[i] = ShortHeader(arg.ids, arg.types, i)

\* a frame with one gap of exactly 16 after a short header and a field
\* after it
C6_Witness ==
  /\ Len(arg.ids) = 3
  /\ Gap(arg.ids, 1) \in 1..15
  /\ Gap(arg.ids, 2) = 16
  /\ Gap(arg.ids, 3) \in 1..15
  /\ Len(arg.hdrs[2]) = 2
  /\ Len(arg.hdrs[3]) = 1

(***************************************************************************)
(* Equality of two values of a schema type: lists and sets as ordered      *)
(* sequences, maps and structs as associations of keys and values.         *)
(***************************************************************************)
RECURSIVE ValEq(_, _, _)
ValEq(a, b, type) ==
  CASE type.thrift_type \in {LIST, SET} ->
         /\ Len(a) = Len(b)
         /\ \A i \in 1..Len(a) : ValEq(a[i], b[i], type.item)
    [] type.thrift_type = MAP ->
         /\ DOMAIN a = DOMAIN b
         /\ \A k \in DOMAIN a : ValEq(a[k], b[k], type.value)
    [] type.thrift_type = STRUCT ->
         /\ DOMAIN a = DOMAIN b
         /\ \A k \in DOMAIN a :
              ValEq(a[k], b[k], FieldNamed(type.shape, k).type)
    [] type.thrift_type = BINARY -> DOMAIN a = DOMAIN b /\ a = b
    [] OTHER -> a = b

(***************************************************************************)
(* The calls of the public surface: thriftWriteFromObject on a schema and  *)
(* a value of its shape, then thriftReadToObject on the buffer returned,   *)
(* under the same schema or under one that keeps only some of its fields.  *)
(***************************************************************************)
\* the longest list, set or map of the inputs
MaxLength == 2

Kinds ==
  {"bool", "byte", "i16", "i32", "i64", "string", "binary", "list<byte>",
   "list<i32>", "list<string>", "set<byte>", "map<i16,byte>",
   "map<string,i32>", "list<bool>", "set<bool>", "map<string,bool>",
   "list<struct>", "list<list>", "map<i32,struct>", "struct", "struct{}"}

\* struct{ quz: binary } of the README
QuzStruct == t_struct(<<t_field("quz", 1, t_binary("STRING"))>>)

InnerStruct ==
  t_struct(<<t_field("x", 1, t_boolean), t_field("y", 2, t_int16),
             t_field("z", 3, t_struct(<<t_field("u", 1, t_byte)>>))>>)

TypeOf(kind) ==
  CASE kind = "bool" -> t_boolean
    [] kind = "byte" -> t_byte
    [] kind = "i16" -> t_int16
    [] kind = "i32" -> t_int32
    [] kind = "i64" -> t_int64
    [] kind = "string" -> t_binary("STRING")
    [] kind = "binary" -> t_binary("BINARY")
    [] kind = "list<byte>" -> t_list(t_byte)
    [] kind = "list<i32>" -> t_list(t_int32)
    [] kind = "list<string>" -> t_list(t_binary("STRING"))
    [] kind = "set<byte>" -> t_set(t_byte)
    [] kind = "map<i16,byte>" -> t_map(t_int16, t_byte)
    [] kind = "map<string,i32>" -> t_map(t_binary("STRING"), t_int32)
    [] kind = "list<bool>" -> t_list(t_boolean)
    [] kind = "set<bool>" -> t_set(t_boolean)
    [] kind = "map<string,bool>" -> t_map(t_binary("STRING"), t_boolean)
    [] kind = "list<struct>" -> t_list(QuzStruct)
    [] kind = "list<list>" -> t_list(t_list(t_byte))
    [] kind = "map<i32,struct>" -> t_map(t_int32, QuzStruct)
    [] kind = "struct" -> InnerStruct
    [] kind = "struct{}" -> t_struct(<<>>)

\* the sequences over S of length 0..n
RECURSIVE SeqsUpTo(_, _)
SeqsUpTo(S, n) ==
  IF n = 0 THEN {<<>>}
  ELSE LET shorter == SeqsUpTo(S, n - 1)
       IN shorter \cup {Append(q, x) : q \in shorter, x \in S}

\* the maps with at most n keys out of K, every value out of V
MapsUpTo(K, V, n) ==
  UNION {[D -> V] : D \in {D \in SUBSET K : Cardinality(D) <= n}}

Strings == {[str |-> <<>>], [str |-> <<97>>], [str |-> <<233, 98>>]}

QuzValues == {[quz |-> [str |-> <<113>>]]}

ValuesOf(kind) ==
  CASE kind = "bool" -> {TRUE, FALSE}
    [] kind = "byte" -> {0, 127, -128}
    [] kind = "i16" -> {0, -1, 32767, -32768}
    [] kind = "i32" -> {1, -1, Two30 - 1, 0 - Two30, Two30, MinInt32}
    [] kind = "i64" ->
         {BigOfInt(0), BigOfInt(-1), BigOnesBelow(63),
          BigNot(BigOnesBelow(63))}
    [] kind = "string" -> Strings
    [] kind = "binary" -> {[buf |-> <<>>], [buf |-> <<0, 255>>]}
    [] kind = "list<byte>" -> SeqsUpTo({3, 100}, MaxLength)
    [] kind = "list<i32>" -> SeqsUpTo({-5, 300}, MaxLength)
    [] kind = "list<string>" -> SeqsUpTo({[str |-> <<97>>]}, MaxLength)
    [] kind = "set<byte>" -> SeqsUpTo({3, 100}, MaxLength)
    [] kind = "map<i16,byte>" -> MapsUpTo({1, 2, 300}, {7}, MaxLength)
    [] kind = "map<string,i32>" ->
         MapsUpTo({[str |-> <<97>>], [str |-> <<98, 99>>]}, {-5, 300},
                  MaxLength)
    [] kind = "list<bool>" -> SeqsUpTo({TRUE}, MaxLength)
    [] kind = "set<bool>" -> SeqsUpTo({FALSE}, MaxLength)
    [] kind = "map<string,bool>" ->
         MapsUpTo({[str |-> <<97>>]}, {TRUE}, MaxLength)
    [] kind = "list<struct>" -> SeqsUpTo(QuzValues, MaxLength)
    [] kind = "list<list>" -> SeqsUpTo({<<3>>}, MaxLength)
    [] kind = "map<i32,struct>" -> MapsUpTo({1}, QuzValues, MaxLength)
    [] kind = "struct" ->
         {EmptyObject, [x |-> TRUE], [x |-> FALSE, y |-> -3],
          [y |-> 4, z |-> [u |-> 9]], [z |-> EmptyObject]}
    [] kind = "struct{}" -> {EmptyObject}

\* the kinds of the second field of a two-field struct
SecondKinds == {"bool", "i16", "struct"}

Call(shape, obj) ==
  [schema |-> t_struct(shape), obj |-> obj, keep |-> ShapeNames(shape)]

Init ==
  /\ w = NewWriter
  /\ r = NewReader(<<>>)
  /\ pc = "start"
  /\ ret = <<>>
  /\ \/ arg = Call(<<>>, EmptyObject)
     \/ \E ka \in Kinds, na \in {1, 16} :
          \/ arg = Call(<<t_field("a", na, TypeOf(ka))>>, EmptyObject)
          \/ \E va \in ValuesOf(ka) :
               arg = Call(<<t_field("a", na, TypeOf(ka))>>, [a |-> va])
     \/ \E ka \in Kinds, kb \in SecondKinds, nb \in {2, 20} :
          \E va \in ValuesOf(ka), vb \in ValuesOf(kb) :
            \E obj \in {[a |-> va, b |-> vb], [b |-> vb]} :
              arg = Call(<<t_field("a", 1, TypeOf(ka)),
                           t_field("b", nb, TypeOf(kb))>>, obj)

ThriftWriteFromObject ==
  /\ pc = "start"
  /\ w' = thriftWriteFromObject(arg.obj, arg.schema)
  /\ pc' = "written"
  /\ UNCHANGED <<r, arg, ret>>

\* the struct that declares only the fields of the given names
SubStruct(struct, names) ==
  t_struct(SelectSeq(struct.shape, LAMBDA f : f.name \in names))

ThriftReadToObject ==
  /\ pc = "written"
  /\ w.err = "none"
  /\ \E names \in SUBSET ShapeNames(arg.schema.shape) :
       LET x == thriftReadToObject(w.buffer, SubStruct(arg.schema, names))
       IN /\ arg' = [arg EXCEPT !.keep = names]
          /\ r' = x.r
          /\ ret' = x.v
  /\ pc' = "read"
  /\ UNCHANGED w

\* bytes that follow the buffer of the writer: a stop byte, bytes that are
\* no field header, and field 1 as a byte with its value and a stop byte
Trailers == {<<STOP>>, <<255, 255>>, <<16 + BYTE, 7, STOP>>}

\* thriftReadToObject under the writer's schema on a buffer that decoded
\* without error, followed by more bytes
ThriftReadTrailing ==
  /\ pc = "read"
  /\ r.err = "none"
  /\ arg.keep = ShapeNames(arg.schema.shape)
  /\ \E t \in Trailers :
       LET x == thriftReadToObject(w.buffer \o t, arg.schema)
       IN /\ arg' = [schema |-> arg.schema, obj |-> arg.obj,
                     keep |-> arg.keep, trailer |-> t]
          /\ r' = x.r
          /\ ret' = x.v
  /\ pc' = "read_trailing"
  /\ UNCHANGED w

Next ==
  \/ ThriftWriteFromObject
  \/ ThriftReadToObject
  \/ ThriftReadTrailing

Spec == Init /\ [][Next]_vars

\* the value without the fields that the reader's schema does not declare
Projection(obj, names) == [k \in (DOMAIN obj) \cap names |-> obj[k]]

(***************************************************************************)
(* C1.  Round trip: for every struct schema S built from bool, byte, i16,  *)
(* i32, i64, binary/string, list, set, map and nested struct, and every    *)
(* value v of the shape of S, thriftWriteFromObject(v, S) returns a buffer *)
(* from which thriftReadToObject under S returns a value equal to v.       *)
(***************************************************************************)
C1_RoundTrip ==
  /\ pc = "written" => w.err = "none"
  /\ (pc = "read" /\ arg.keep = ShapeNames(arg.schema.shape)) =>
       /\ r.err = "none"
       /\ ValEq(ret, arg.obj, arg.schema)

\* the schema the reader was given: the fields of arg.schema it keeps
ReadSchema == SubStruct(arg.schema, arg.keep)

(***************************************************************************)
(* C2.  Forward compatibility: when the writer's schema has all the fields *)
(* of the reader's schema and more, decoding the buffer the writer         *)
(* returned raises no error and returns the projection of the value onto   *)
(* the fields of the reader's schema.                                      *)
(***************************************************************************)
C2_ForwardCompatibility ==
  (pc = "read" /\ arg.keep # ShapeNames(arg.schema.shape)) =>
    /\ r.err = "none"
    /\ ValEq(ret, Projection(arg.obj, arg.keep), ReadSchema)

\* the type of field a, the first field of every schema but the empty one
TypeOfA == arg.schema.shape[1].type

\* field a is declared and the value has it
HasA == Len(arg.schema.shape) >= 1 /\ "a" \in DOMAIN arg.obj

(***************************************************************************)
(* C7.  A struct with a list field whose items are structs, the list not   *)
(* empty, is encoded without error and the buffer decodes under the same   *)
(* schema to the value; likewise for the elements of a list or map that    *)
(* are lists or structs.                                                   *)
(***************************************************************************)
C7_StructAndContainerElements ==
  LET elements ==
        CASE TypeOfA.thrift_type = LIST ->
               TypeOfA.item.thrift_type \in {STRUCT, LIST}
                 /\ Len(arg.obj.a) > 0
          [] TypeOfA.thrift_type = MAP ->
               TypeOfA.value.thrift_type = STRUCT /\ DOMAIN arg.obj.a # {}
          [] OTHER -> FALSE
  IN (HasA /\ elements) =>
       /\ pc = "written" => w.err = "none"
       /\ (pc = "read" /\ arg.keep = ShapeNames(arg.schema.shape)) =>
            /\ r.err = "none"
            /\ ValEq(ret, arg.obj, arg.schema)

(***************************************************************************)
(* C8.  A field declared set(T) is written with the type tag that          *)
(* read_struct requires for it, and the buffer decodes under the same      *)
(* schema to the same sequence of elements.                                *)
(***************************************************************************)
C8_SetField ==
  (HasA /\ TypeOfA.thrift_type = SET /\ w.err = "none") =>
    /\ pc = "written" => BitAnd(w.buffer[1], 15) = SET
    /\ (pc = "read" /\ arg.keep = ShapeNames(arg.schema.shape)) =>
         /\ r.err = "none"
         /\ ValEq(ret, arg.obj, arg.schema)

(***************************************************************************)
(* C9.  Encoding a list, set or map whose declared item, key or value type *)
(* is boolean fails with the ThriftError of booleans outside structs, for  *)
(* every length of the container, the empty one included.                  *)
(***************************************************************************)
C9_InvalidBooleanContext ==
  LET booleans ==
        CASE TypeOfA.thrift_type \in {LIST, SET} ->
               TypeOfA.item.thrift_type = BOOLEAN_
          [] TypeOfA.thrift_type = MAP ->
               TypeOfA.key.thrift_type = BOOLEAN_
                 \/ TypeOfA.value.thrift_type = BOOLEAN_
          [] OTHER -> FALSE
  IN (pc = "written" /\ HasA /\ booleans) =>
       w.err = "booleans can only be used in structs"

(***************************************************************************)
(* C10.  Decoding under a struct schema with no declared fields, given as  *)
(* the root schema or as the type of a field, fails with the ThriftError   *)
(* of structs without fields.                                              *)
(***************************************************************************)
C10_EmptyStructRead ==
  LET shape == ReadSchema.shape
      nested == \E i \in 1..Len(shape) :
                  /\ shape[i].type.thrift_type = STRUCT
                  /\ Len(shape[i].type.shape) = 0
  IN (pc = "read" /\ (Len(shape) = 0 \/ nested)) =>
       r.err = "No fields defined for struct"

(***************************************************************************)
(* Decoding a buffer that was not written under the reader's schema: one   *)
(* field header of any type tag and either field number, the bytes of a    *)
(* value of that tag, and the stop byte, read under a schema of one field. *)
(***************************************************************************)
WireKinds ==
  {"bool", "byte", "i16", "i32", "i64", "string", "binary", "list<byte>",
   "list<bool>", "set<byte>", "map<i16,byte>", "struct"}

WireFieldNumbers == {1, 16}

\* the type tags of a field header: every value of the low nibble but STOP
WireTags == 1..15

\* the bytes of values of the wire type tag: those that decode under the
\* kinds of WireKinds of that tag and, for a list or set, one of i32 items,
\* one of a TRUE item and one of no items of type i32
WirePayloads(tag) ==
  CASE tag \in {TRUE_, FALSE_} -> {<<>>}
    [] tag = BYTE -> {<<7>>, <<128>>}
    [] tag \in {INT_16, INT_32, INT_64} -> {<<10>>, <<129, 1>>}
    [] tag = DOUBLE -> {<<0, 0, 0, 0, 0, 0, 240, 63>>}
    [] tag = BINARY -> {<<0>>, <<1, 97>>}
    [] tag \in {LIST, SET} ->
         {<<BYTE>>, <<16 + BYTE, 7>>, <<16 + INT_32, 10>>, <<16 + TRUE_>>,
          <<INT_32>>}
    [] tag = MAP -> {<<0>>, <<1, INT_16 * 16 + BYTE, 2, 7>>}
    [] tag = STRUCT -> {<<0>>, <<16 + TRUE_, 0>>}
    [] tag = FLOAT -> {<<0, 0, 128, 63>>}
    [] OTHER -> {<<>>}

\* the bytes of one-element lists and maps and of structs of one field (of
\* number 5) whose element, key, value or field has a type tag that is no
\* Thrift type: 14, 15, or STOP as the type of an element
UnknownElementPayloads(tag) ==
  CASE tag \in {LIST, SET} -> {<<16 + 14, 0>>, <<16 + 15, 0>>, <<16 + STOP, 0>>}
    [] tag = MAP ->
         {<<1, 14 * 16 + BYTE, 0, 7>>, <<1, INT_16 * 16 + 15, 2, 0>>,
          <<1, STOP * 16 + BYTE, 0, 7>>, <<1, INT_16 * 16 + STOP, 2, 0>>}
    [] tag = STRUCT -> {<<5 * 16 + 14, 0, 0>>, <<5 * 16 + 15, 0, 0>>}
    [] OTHER -> {}

\* the field header of the format for a field number counted from 0
WireHeader(id, tag) ==
  IF id <= 15 THEN <<id * 16 + tag>> ELSE <<tag>> \o VarintBytes(2 * id)

InitWire ==
  /\ w = NewWriter
  /\ r = NewReader(<<>>)
  /\ pc = "wire"
  /\ ret = <<>>
  /\ \E kind \in WireKinds, number \in WireFieldNumbers,
        id \in WireFieldNumbers, tag \in WireTags :
       \E payload \in WirePayloads(tag) \cup UnknownElementPayloads(tag) :
         arg = [schema |-> t_struct(<<t_field("a", number, TypeOf(kind))>>),
                id |-> id, tag |-> tag,
                buffer |-> WireHeader(id, tag) \o payload \o <<STOP>>]

ReadWire ==
  /\ pc = "wire"
  /\ LET x == thriftReadToObject(arg.buffer, arg.schema)
     IN /\ r' = x.r
        /\ ret' = x.v
  /\ pc' = "read"
  /\ UNCHANGED <<w, arg>>

NextWire == ReadWire

SpecWire == InitWire /\ [][NextWire]_vars

\* the wire type tag equals the Thrift type of the schema, TRUE and FALSE
\* both counting as BOOLEAN
SameType(tag, type) ==
  \/ tag = type.thrift_type
  \/ tag \in {TRUE_, FALSE_} /\ type.thrift_type = BOOLEAN_

(***************************************************************************)
(* C3.  Field-level TypeMismatch: when read_struct reads a field header    *)
(* whose field number the schema declares, decoding fails with ThriftError *)
(* of mismatching types if and only if the wire type tag differs from the  *)
(* Thrift type of the schema's field, TRUE and FALSE both counting as      *)
(* BOOLEAN; a decoding that ends without error has assigned the field.     *)
(***************************************************************************)
C3_FieldTypeMismatch ==
  (pc = "read" /\ arg.id = arg.schema.shape[1].number) =>
    /\ r.err = "Mismatching type"
         <=> ~SameType(arg.tag, arg.schema.shape[1].type)
    /\ r.err \in ThriftErrors \cup {"none"}
    /\ r.err = "none" => DOMAIN ret = {"a"}

\* a wire i32 read for a field declared binary, its header in the long form
C3_Witness ==
  /\ pc = "read"
  /\ arg.id = arg.schema.shape[1].number
  /\ arg.id = 16
  /\ arg.tag = INT_32
  /\ arg.schema.shape[1].type.thrift_type = BINARY
  /\ r.err = "Mismatching type"

\* the field numbers of the field headers of the outermost struct of a
\* buffer, in the order of the buffer, each value passed over with skip, and
\* whether the walk ended at a stop byte
RECURSIVE TopFields(_, _)
TopFields(rd, ids) ==
  LET turn(f) ==
        IF f.r.err # "none" THEN [r |-> f.r, ids |-> ids, stop |-> FALSE]
        ELSE IF f.type = STOP THEN [r |-> f.r, ids |-> ids, stop |-> TRUE]
        ELSE TopFields(skip(f.r, f.type), Append(ids, f.id))
  IN IF rd.err # "none" \/ ~(rd.cursor < Len(rd.buffer))
     THEN [r |-> rd, ids |-> ids, stop |-> FALSE]
     ELSE turn(read_field(rd))

\* the numbers of the fields of the shape whose names are keys of obj, in
\* the declared order
PresentNumbers(shape, obj) ==
  LET present == SelectSeq(shape, LAMBDA f : f.name \in DOMAIN obj)
  IN [i \in 1..Len(present) |-> present[i].number]

(***************************************************************************)
(* C11.  Struct encode: the buffer has the field headers of exactly the    *)
(* schema fields whose names are keys of the object, in the declared       *)
(* order, then one stop byte, which is its last byte; a field absent from  *)
(* the object adds no bytes, and the empty object encodes to the byte 0.   *)
(***************************************************************************)
C11_StructEncode ==
  LET encoded(p) ==
        /\ p.r.err = "none"
        /\ p.stop
        /\ p.r.cursor = Len(w.buffer)
        /\ p.ids = PresentNumbers(arg.schema.shape, arg.obj)
  IN (pc = "written" /\ w.err = "none") =>
       /\ encoded(TopFields(NewReader(w.buffer), <<>>))
       /\ w.buffer =
            thriftWriteFromObject(arg.obj,
                                  SubStruct(arg.schema, DOMAIN arg.obj)).buffer
       /\ DOMAIN arg.obj = {} => w.buffer = <<STOP>>

\* a struct of two fields encoded from an object that has only the second
C11_Witness ==
  /\ pc = "written"
  /\ w.err = "none"
  /\ Len(arg.schema.shape) = 2
  /\ DOMAIN arg.obj = {"b"}
  /\ Len(w.buffer) > 2

(***************************************************************************)
(* C12.  Tolerant read: for a buffer b that decodes without error and any  *)
(* bytes t, decoding b followed by t returns the value that decoding b     *)
(* returns, raises no error and leaves the cursor just after the stop byte *)
(* of the outermost struct of b.                                           *)
(***************************************************************************)
C12_TolerantRead ==
  LET same(x) ==
        /\ x.r.err = "none"
        /\ r.err = "none"
        /\ ValEq(ret, x.v, arg.schema)
        /\ r.cursor = x.r.cursor
        /\ r.cursor = Len(w.buffer)
        /\ r.buffer[r.cursor] = STOP
        /\ r.stack = <<>>
  IN pc = "read_trailing" => same(thriftReadToObject(w.buffer, arg.schema))

\* a decode that stopped before a trailing field header of a declared field
C12_Witness ==
  /\ pc = "read_trailing"
  /\ arg.trailer = <<16 + BYTE, 7, STOP>>
  /\ Len(arg.schema.shape) = 1
  /\ arg.schema.shape[1].type.thrift_type = BYTE
  /\ "a" \in DOMAIN ret
  /\ ret.a = 127
  /\ r.cursor = Len(r.buffer) - 3

(***************************************************************************)
(* The loops of a call, one turn at a time: the while loop of read_struct  *)
(* on the outermost struct, the while loop of skip(STRUCT), and the        *)
(* while (true) loops of the two varint encoders.  What a turn calls       *)
(* (read_field, read_val_recursive, skip of one value) is one step.  arg   *)
(* holds the arguments of the call, the local variable num of the encoders *)
(* and the number of turns taken so far.                                   *)
(***************************************************************************)
\* one turn of the while loop of read_struct: done when the loop is left,
\* by its condition, by the stop byte or by a throw
read_struct_turn(rd, struct, response) ==
  LET turn(f) ==
        LET next(x) == [r |-> x.r, v |-> x.v, done |-> x.r.err # "none"]
        IN IF f.r.err # "none" \/ f.type = STOP
           THEN [r |-> f.r, v |-> response, done |-> TRUE]
           ELSE next(read_struct_field(f.r, struct, response, f))
  IN IF rd.err # "none" \/ ~(rd.cursor < Len(rd.buffer))
     THEN [r |-> rd, v |-> response, done |-> TRUE]
     ELSE turn(read_field(rd))

\* one turn of the while loop of skip(STRUCT)
skip_struct_turn(rd) ==
  LET turn(f) ==
        LET next(r2) == [r |-> r2, done |-> r2.err # "none"]
        IN IF f.r.err # "none" \/ f.type = STOP
           THEN [r |-> f.r, done |-> TRUE]
           ELSE next(skip(f.r, f.type))
  IN IF rd.err # "none" \/ ~(rd.cursor < Len(rd.buffer))
     THEN [r |-> rd, done |-> TRUE]
     ELSE turn(read_field(rd))

\* one turn of the while (true) loop of _write_varint
_write_varint_turn(wr, num) ==
  LET turn(byte) ==
        IF byte = 0
        THEN [w |-> _write_byte(wr, num), num |-> num, done |-> TRUE]
        ELSE IF byte = -128
        THEN [w |-> _write_byte(wr, 0), num |-> num, done |-> TRUE]
        ELSE [w |-> _write_byte(wr, BitOr(BitAnd(num, 255), 128)),
              num |-> Sar(num, 7), done |-> FALSE]
  IN turn(BitAnd(num, -128))

\* one turn of the while (true) loop of _write_bigint_varint
_write_bigint_varint_turn(wr, n) ==
  IF BigIsZero(BigAnd(n, BigNot(BigOfInt(127))))
  THEN [w |-> _write_byte(wr, BigToByte(n)), num |-> n, done |-> TRUE]
  ELSE [w |-> _write_byte(wr, BigToByte(BigOr(BigAnd(n, BigOfInt(127)),
                                              BigOfInt(128)))),
        num |-> BigSar(n, 7), done |-> FALSE]

\* the longest buffer of the buffers made of LoopBytes
MaxBuffer == 3

\* the stop byte, short field headers of types STOP, TRUE, i32, binary,
\* list and struct, and bytes with the continuation bit; as list headers
\* they are lists of 0 to 8 items or of a length that follows
LoopBytes == {0, 16, 16 + TRUE_, 16 + INT_32, 16 + BINARY, 16 + LIST,
              16 + STRUCT, 129, 255}

\* a binary field in the long header form (field 1, then field 2) whose
\* length is the five-byte varint of -7
NegativeLengthBuffers ==
  {<<BINARY, 2, 249, 255, 255, 255, 15>>,
   <<BINARY, 4, 249, 255, 255, 255, 15>>}

LoopBuffers == SeqsUpTo(LoopBytes, MaxBuffer) \cup NegativeLengthBuffers

\* the turns a call is followed for: the longest varint has ten bytes and the
\* longest buffer seven
MaxTurns == 12

LoopSchemas ==
  {t_struct(<<>>),
   t_struct(<<t_field("a", 1, t_binary("BINARY")),
              t_field("b", 2, t_struct(<<t_field("u", 1, t_boolean)>>)),
              t_field("c", 3, t_list(t_binary("STRING")))>>)}

InitLoop ==
  /\ ret = EmptyObject
  /\ \/ /\ pc = "read_struct"
        /\ w = NewWriter
        /\ \E buffer \in LoopBuffers, struct \in LoopSchemas :
             /\ arg = [buffer |-> buffer, schema |-> struct, turn |-> 0]
             /\ r = NewReader(buffer)
     \/ /\ pc = "skip"
        /\ w = NewWriter
        /\ \E buffer \in LoopBuffers :
             /\ arg = [buffer |-> buffer, schema |-> t_struct(<<>>), turn |-> 0]
             /\ r = R_push_stack(NewReader(buffer))
     \/ /\ pc = "_write_varint"
        /\ w = NewWriter
        /\ r = NewReader(<<>>)
        /\ \E n \in Int32Samples : arg = [num |-> n, turn |-> 0]
     \/ /\ pc = "_write_bigint_varint"
        /\ w = NewWriter
        /\ r = NewReader(<<>>)
        /\ \E n \in Int64Samples :
             arg = [num |-> bigintToZigZag(n), turn |-> 0]

\* where a call is after a turn that left the loop or did not
Left(done, err, loop) ==
  IF ~done THEN loop ELSE IF err = "none" THEN "returned" ELSE "thrown"

ReadStructTurn ==
  /\ pc = "read_struct"
  /\ arg.turn < MaxTurns
  /\ \E x \in {read_struct_turn(r, arg.schema, ret)} :
        /\ r' = x.r
        /\ ret' = x.v
        /\ pc' = Left(x.done, x.r.err, "read_struct")
  /\ arg' = [arg EXCEPT !.turn = @ + 1]
  /\ UNCHANGED w

SkipStructTurn ==
  /\ pc = "skip"
  /\ arg.turn < MaxTurns
  /\ \E x \in {skip_struct_turn(r)} :
        /\ r' = IF x.done THEN R_pop_stack(x.r) ELSE x.r
        /\ pc' = Left(x.done, x.r.err, "skip")
  /\ arg' = [arg EXCEPT !.turn = @ + 1]
  /\ UNCHANGED <<w, ret>>

WriteVarintTurn ==
  /\ pc = "_write_varint"
  /\ arg.turn < MaxTurns
  /\ \E x \in {_write_varint_turn(w, arg.num)} :
        /\ w' = x.w
        /\ arg' = [num |-> x.num, turn |-> arg.turn + 1]
        /\ pc' = Left(x.done, x.w.err, "_write_varint")
  /\ UNCHANGED <<r, ret>>

WriteBigintVarintTurn ==
  /\ pc = "_write_bigint_varint"
  /\ arg.turn < MaxTurns
  /\ \E x \in {_write_bigint_varint_turn(w, arg.num)} :
        /\ w' = x.w
        /\ arg' = [num |-> x.num, turn |-> arg.turn + 1]
        /\ pc' = Left(x.done, x.w.err, "_write_bigint_varint")
  /\ UNCHANGED <<r, ret>>

NextLoop ==
  \/ ReadStructTurn
  \/ SkipStructTurn
  \/ WriteVarintTurn
  \/ WriteBigintVarintTurn

\* a call that is in a loop takes its next turn
SpecLoop == InitLoop /\ [][NextLoop]_vars /\ WF_vars(NextLoop)

(***************************************************************************)
(* C13.  Termination: every decode call on a finite buffer and every       *)
(* encode call returns or throws, so no turn of a loop leaves the call     *)
(* where it was before the turn; and every turn of the loops of            *)
(* read_struct and skip(STRUCT) that reads a field moves the cursor        *)
(* forward by at least one byte.                                           *)
(***************************************************************************)
C13_Termination ==
  /\ [][(pc # "returned" /\ pc # "thrown")
          => <<r, w, ret, pc>>' # <<r, w, ret, pc>>]_vars
  /\ [][((pc = "read_struct" \/ pc = "skip") /\ r.cursor < Len(r.buffer))
          => r.cursor < r'.cursor]_vars

\* a call whose schema is one field of type byte that the value has
ByteFieldCall ==
  /\ pc \in {"written", "read"}
  /\ Len(arg.schema.shape) = 1
  /\ arg.schema.shape[1].type = t_byte
  /\ "a" \in DOMAIN arg.obj

(***************************************************************************)
(* C14.  Byte round trip: for a byte field of value b in -128..127 the     *)
(* writer returns the field header, then one byte that is b as a two's     *)
(* complement byte, then the stop byte; reading the buffer returns b.      *)
(***************************************************************************)
C14_ByteRoundTrip ==
  ByteFieldCall =>
    /\ w.err = "none"
    /\ w.buffer =
         _write_field_begin(NewWriter, arg.schema.shape[1].number, BYTE).buffer
           \o <<arg.obj.a % 256, STOP>>
    /\ (pc = "read" /\ arg.keep = {"a"}) =>
         /\ r.err = "none"
         /\ ret.a = arg.obj.a

\* the buffer holds a container or struct with an element of no Thrift type
HasUnknownElement ==
  \E payload \in UnknownElementPayloads(arg.tag) :
    arg.buffer = WireHeader(arg.id, arg.tag) \o payload \o <<STOP>>

(***************************************************************************)
(* C15.  UnknownType: a field whose wire type tag is 14 or 15, or whose    *)
(* value has an element of type tag 14, 15 or STOP, makes the decode fail  *)
(* with ThriftError, also when the schema does not declare the field and   *)
(* the value is skipped; a field that the schema does not declare and      *)
(* whose value is of a type tag of 1..13 is skipped without an error, up   *)
(* to the stop byte.                                                       *)
(***************************************************************************)
C15_UnknownType ==
  pc = "read" =>
    /\ (arg.tag \in {14, 15} \/ HasUnknownElement) => r.err \in ThriftErrors
    /\ (arg.id # arg.schema.shape[1].number /\ arg.tag \in 1..13
          /\ ~HasUnknownElement) =>
         /\ r.err = "none"
         /\ r.cursor = Len(arg.buffer)
         /\ ret = EmptyObject

\* a skipped field of type tag 15
C15_Witness ==
  /\ pc = "read"
  /\ arg.tag = 15
  /\ arg.id # arg.schema.shape[1].number
  /\ r.err = "not implemented"

(***************************************************************************)
(* TStruct.merge.  A shape is the sequence of the fields of the object in  *)
(* the order of its keys; the spread of two objects keeps the keys of the  *)
(* first in their places, with the values of the second where it has the   *)
(* key, and appends the other keys of the second.                          *)
(***************************************************************************)
\* mergeShapes with the first shape overwriting the second
Mut_mergeShapes_firstWins(first, second) ==
  first \o SelectSeq(second, LAMBDA f : f.name \notin ShapeNames(first))

mergeShapes(first, second) ==
  [i \in 1..Len(first) |->
     IF first[i].name \in ShapeNames(second)
     THEN FieldNamed(second, first[i].name)
     ELSE first[i]]
    \o SelectSeq(second, LAMBDA f : f.name \notin ShapeNames(first))

\* this.merge(merging): the struct returned, and the two structs as they
\* are after the call
merge(this, merging) ==
  [this |-> this, merging |-> merging,
   merged |-> t_struct(mergeShapes(this.shape, merging.shape))]

\* the most fields of a struct that is merged
MaxFields == 2

MergeNames == {"a", "b", "c"}

\* the descriptors of a field: a number and a type
MergeDescriptors ==
  {[number |-> 1, type |-> t_byte], [number |-> 2, type |-> t_boolean]}

\* the shapes of at most n fields of distinct names
RECURSIVE MergeShapes(_)
MergeShapes(n) ==
  IF n = 0 THEN {<<>>}
  ELSE LET shorter == MergeShapes(n - 1)
           longer ==
             {Append(shape, t_field(name, d.number, d.type)) :
                shape \in {q \in shorter : Len(q) = n - 1},
                name \in MergeNames, d \in MergeDescriptors}
       IN shorter \cup {q \in longer : Cardinality(ShapeNames(q)) = Len(q)}

InitMerge ==
  /\ w = NewWriter
  /\ r = NewReader(<<>>)
  /\ pc = "merge"
  /\ ret = <<>>
  /\ \E A \in MergeShapes(MaxFields), B \in MergeShapes(MaxFields) :
       arg = [this |-> t_struct(A), merging |-> t_struct(B)]

Merge ==
  /\ pc = "merge"
  /\ \E x \in {merge(arg.this, arg.merging)} :
       /\ arg' = [this |-> x.this, merging |-> x.merging, before |-> arg]
       /\ ret' = x.merged
  /\ pc' = "merged"
  /\ UNCHANGED <<w, r>>

NextMerge == Merge

SpecMerge == InitMerge /\ [][NextMerge]_vars

(***************************************************************************)
(* C16.  Struct merge: A.merge(B) returns a struct whose shape has the     *)
(* field names of A and of B and no other, each once, with the descriptor  *)
(* of B for a name that B has and the descriptor of A otherwise; the       *)
(* shapes of A and B after the call are the shapes before it.              *)
(***************************************************************************)
C16_StructMerge ==
  pc = "merged" =>
    /\ ret.thrift_type = STRUCT
    /\ ShapeNames(ret.shape)
         = ShapeNames(arg.before.this.shape)
             \cup ShapeNames(arg.before.merging.shape)
    /\ Cardinality(ShapeNames(ret.shape)) = Len(ret.shape)
    /\ \A i \in 1..Len(ret.shape) :
         ret.shape[i] =
           IF ret.shape[i].name \in ShapeNames(arg.before.merging.shape)
           THEN FieldNamed(arg.before.merging.shape, ret.shape[i].name)
           ELSE FieldNamed(arg.before.this.shape, ret.shape[i].name)
    /\ arg.this = arg.before.this
    /\ arg.merging = arg.before.merging

\* a merge of two structs that have one name in common, with two descriptors
C16_Witness ==
  /\ pc = "merged"
  /\ ShapeNames(arg.this.shape) = {"a", "b"}
  /\ ShapeNames(arg.merging.shape) = {"b", "c"}
  /\ FieldNamed(arg.this.shape, "b").number = 1
  /\ FieldNamed(arg.merging.shape, "b").number = 2
  /\ Len(ret.shape) = 3

(***************************************************************************)
(* The frame of a nested struct, one step at a time.  The value is a       *)
(* struct of a field a that is a struct and a field b that is an i16.  The *)
(* writer's steps are the steps of write_struct on it: write_struct_begin  *)
(* for a, write_struct of the value of a, write_val of b and write_stop.   *)
(* The reader's steps are the steps of read_struct on the buffer:          *)
(* read_field, then _push_stack, the loop over the fields of the nested    *)
(* struct and _pop_stack, as read_val_recursive does them for a field the  *)
(* schema declares and skip does them for a field it does not; then the    *)
(* rest of the loop of read_struct.                                        *)
(***************************************************************************)
FrameNumbers == {1, 16}

\* the numbers of b from the number of a on: a short and a long header
FrameGaps == {1, 20}

FrameSchema(na, nb) ==
  t_struct(<<t_field("a", na, InnerStruct), t_field("b", nb, t_int16)>>)

InitFrame ==
  /\ w = NewWriter
  /\ r = NewReader(<<>>)
  /\ pc = "write_struct_begin"
  /\ ret = EmptyObject
  /\ \E na \in FrameNumbers, gap \in FrameGaps, path \in {"decode", "skip"} :
       \E va \in ValuesOf("struct"), vb \in ValuesOf("i16") :
         arg = [schema |-> FrameSchema(na, na + gap),
                obj |-> [a |-> va, b |-> vb],
                keep |-> IF path = "decode" THEN {"a", "b"} ELSE {"b"}]

WriteStructBegin ==
  /\ pc = "write_struct_begin"
  /\ w' = write_struct_begin(w, arg.schema.shape[1].number)
  /\ pc' = "write_struct"
  /\ UNCHANGED <<r, arg, ret>>

WriteNestedStruct ==
  /\ pc = "write_struct"
  /\ w' = write_struct(w, arg.obj.a, arg.schema.shape[1].type)
  /\ pc' = "write_val"
  /\ UNCHANGED <<r, arg, ret>>

WriteSibling ==
  /\ pc = "write_val"
  /\ w' = write_stop(write_val(w, <<arg.schema.shape[2].number>>, INT_16,
                               arg.obj.b))
  /\ pc' = "written"
  /\ UNCHANGED <<r, arg, ret>>

ReadStructField ==
  /\ pc = "written"
  /\ w.err = "none"
  /\ r' = read_field(NewReader(w.buffer)).r
  /\ pc' = "_push_stack"
  /\ UNCHANGED <<w, arg, ret>>

EnterFrame ==
  /\ pc = "_push_stack"
  /\ r' = R_push_stack(r)
  /\ pc' = "nested"
  /\ UNCHANGED <<w, arg, ret>>

ReadNestedStruct ==
  /\ pc = "nested"
  /\ "a" \in arg.keep
  /\ \E x \in {read_struct(r, arg.schema.shape[1].type)} :
       /\ r' = x.r
       /\ ret' = [a |-> x.v]
  /\ pc' = "_pop_stack"
  /\ UNCHANGED <<w, arg>>

SkipNestedStruct ==
  /\ pc = "nested"
  /\ "a" \notin arg.keep
  /\ r' = skip_fields(r)
  /\ pc' = "_pop_stack"
  /\ UNCHANGED <<w, arg, ret>>

LeaveFrame ==
  /\ pc = "_pop_stack"
  /\ r' = R_pop_stack(r)
  /\ pc' = "sibling"
  /\ UNCHANGED <<w, arg, ret>>

ReadSibling ==
  /\ pc = "sibling"
  /\ \E x \in {read_struct_loop(r, SubStruct(arg.schema, arg.keep), ret)} :
       /\ r' = x.r
       /\ ret' = x.v
  /\ pc' = "read"
  /\ UNCHANGED <<w, arg>>

NextFrame ==
  \/ WriteStructBegin
  \/ WriteNestedStruct
  \/ WriteSibling
  \/ ReadStructField
  \/ EnterFrame
  \/ ReadNestedStruct
  \/ SkipNestedStruct
  \/ LeaveFrame
  \/ ReadSibling

SpecFrame == InitFrame /\ [][NextFrame]_vars

\* the header of b after a: the gap of the two numbers in the high nibble,
\* or the type and then the number of b
SiblingHeader ==
  IF arg.schema.shape[2].number - arg.schema.shape[1].number <= 15
  THEN <<(arg.schema.shape[2].number - arg.schema.shape[1].number) * 16
           + INT_16>>
  ELSE <<INT_16>> \o VarintBytes(ZigZag16(arg.schema.shape[2].number))

\* the last n bytes of a buffer
Suffix(buffer, n) == SubSeq(buffer, Len(buffer) - n + 1, Len(buffer))

(***************************************************************************)
(* C17.  Field-id frame discipline: in the writer and in the reader, on    *)
(* the decode path and on the skip path, entering the frame of a nested    *)
(* struct pushes prev_field_id and sets it to 0, and leaving the frame     *)
(* after its stop byte sets prev_field_id to the number of the nested      *)
(* struct's field again, so that the next field is coded and decoded by    *)
(* its gap from that number; after the encode and after the decode the     *)
(* stack is empty.                                                         *)
(***************************************************************************)
C17_FrameDiscipline ==
  LET na == arg.schema.shape[1].number
      nb == arg.schema.shape[2].number
      tail == SiblingHeader \o _write_word(NewWriter, arg.obj.b).buffer
                \o <<STOP>>
  IN /\ pc = "write_struct" => w.prev_field_id = 0 /\ w.stack = <<na>>
     /\ pc = "write_val" => w.prev_field_id = na /\ w.stack = <<>>
     /\ pc = "written" =>
          /\ w.err = "none"
          /\ w.stack = <<>>
          /\ Len(w.buffer) > Len(tail)
          /\ Suffix(w.buffer, Len(tail)) = tail
          /\ w = thriftWriteFromObject(arg.obj, arg.schema)
     /\ pc = "_push_stack" => r.prev_field_id = na /\ r.stack = <<>>
     /\ pc = "nested" => r.prev_field_id = 0 /\ r.stack = <<na>>
     /\ pc = "sibling" =>
          r.err = "none" /\ r.prev_field_id = na /\ r.stack = <<>>
     /\ pc = "read" =>
          /\ r.err = "none"
          /\ r.stack = <<>>
          /\ r.prev_field_id = nb
          /\ r.cursor = Len(r.buffer)
          /\ ValEq(ret, Projection(arg.obj, arg.keep),
                   SubStruct(arg.schema, arg.keep))
          /\ r = thriftReadToObject(w.buffer,
                                    SubStruct(arg.schema, arg.keep)).r

\* a nested struct with a struct of its own was skipped, and the field after
\* it, whose header is in the short form, was decoded
C17_Witness ==
  /\ pc = "read"
  /\ arg.keep = {"b"}
  /\ "z" \in DOMAIN arg.obj.a
  /\ arg.schema.shape[1].number = 16
  /\ arg.schema.shape[2].number = 17
  /\ ret.b = -32768

\* the reader after the field header of the buffer
AfterHeader == read_field(NewReader(arg.buffer)).r

\* a field that the schema declares as the container that is on the wire
ContainerRead(types) ==
  /\ pc = "read"
  /\ arg.id = arg.schema.shape[1].number
  /\ arg.tag = arg.schema.shape[1].type.thrift_type
  /\ arg.tag \in types

(***************************************************************************)
(* C18.  Container type conformance: reading a list, set or map that the   *)
(* schema declares fails with ThriftError if and only if the type tag of   *)
(* the items, or of the keys or the values, in the header of the container *)
(* differs from the Thrift type of the schema, TRUE and FALSE both         *)
(* counting as BOOLEAN, whatever the length in the header, 0 included;     *)
(* without an error the container has as many elements as the header says. *)
(***************************************************************************)
C18_ContainerTypeConformance ==
  /\ ContainerRead({LIST, SET}) =>
       LET h == read_list_header(AfterHeader)
       IN /\ r.err \in ThriftErrors
               <=> ~SameType(h.type, arg.schema.shape[1].type.item)
          /\ r.err = "none" => Len(ret.a) = h.length
  /\ ContainerRead({MAP}) =>
       LET h == read_map_header(AfterHeader)
       IN /\ r.err \in ThriftErrors
               <=> \/ ~SameType(h.key_type, arg.schema.shape[1].type.key)
                   \/ ~SameType(h.value_type, arg.schema.shape[1].type.value)
          /\ r.err = "none" => Cardinality(DOMAIN ret.a) = h.length

(***************************************************************************)
(* The reads of a BufferReader, one after another on one buffer: each step *)
(* is one call of a method of the reader that has not thrown.  pc is the   *)
(* method called last and arg.calls the number of calls.                   *)
(***************************************************************************)
\* the calls on one reader
MaxCalls == 3

\* the stop byte, two small bytes, and the short field headers of a binary
\* and of a map (as a list header: one item of that type)
CursorBytes == {0, 1, 2, 16 + BINARY, 16 + MAP}

\* the buffers of CursorBytes, the two-byte varint of 129, and a byte with
\* the five-byte varint of 1 - 2^31 after it
CursorBuffers ==
  SeqsUpTo(CursorBytes, MaxBuffer)
    \cup {<<129, 1>>, <<1, 129, 128, 128, 128, 8>>}

\* the lengths readBinary is called with
BinaryLengths == {-7, -1, 0, 1, 2, 9}

InitCursor ==
  /\ w = NewWriter
  /\ pc = "constructor"
  /\ ret = EmptyObject
  /\ \E buffer \in CursorBuffers :
       /\ r = NewReader(buffer)
       /\ arg = [buffer |-> buffer, calls |-> 0]

\* the reader after a call, and the call counted
Called(rd, method) ==
  /\ r' = rd
  /\ pc' = method
  /\ arg' = [arg EXCEPT !.calls = @ + 1]
  /\ UNCHANGED <<w, ret>>

CanCall == r.err = "none" /\ arg.calls < MaxCalls

CallReadByte == CanCall /\ Called(readByte(r).r, "readByte")

CallReadVarInt == CanCall /\ Called(readVarInt(r).r, "readVarInt")

CallReadVarBigint == CanCall /\ Called(readVarBigint(r).r, "readVarBigint")

CallReadBinary ==
  /\ CanCall
  /\ \E len \in BinaryLengths : Called(readBinary(r, len).r, "readBinary")

CallReadVal ==
  /\ CanCall
  /\ \E type \in {TRUE_, BYTE, INT_32, INT_64, DOUBLE, BINARY, FLOAT} :
       Called(read_val(r, type).r, "read_val")

CallReadField == CanCall /\ Called(read_field(r).r, "read_field")

CallReadListHeader == CanCall /\ Called(read_list_header(r).r, "read_list_header")

CallReadMapHeader == CanCall /\ Called(read_map_header(r).r, "read_map_header")

CallSkip ==
  /\ CanCall
  /\ \E type \in {BINARY, LIST, MAP, STRUCT} : Called(skip(r, type), "skip")

NextCursor ==
  \/ CallReadByte
  \/ CallReadVarInt
  \/ CallReadVarBigint
  \/ CallReadBinary
  \/ CallReadVal
  \/ CallReadField
  \/ CallReadListHeader
  \/ CallReadMapHeader
  \/ CallSkip

SpecCursor == InitCursor /\ [][NextCursor]_vars

(***************************************************************************)
(* C19.  Cursor invariant: for every buffer and every sequence of reads    *)
(* (readByte, the varints, readBinary with any length, read_val,           *)
(* read_field, the container headers, skip) the cursor is at least 0 and   *)
(* at most the length of the buffer, and a read that returns leaves the    *)
(* cursor where it was or further on.                                      *)
(***************************************************************************)
C19_CursorInvariant ==
  /\ [](0 <= r.cursor /\ r.cursor <= Len(r.buffer))
  /\ [][r'.err = "none" => r.cursor <= r'.cursor]_vars

\* a field of wire type TRUE or FALSE that the schema declares a boolean
BooleanRead ==
  /\ pc = "read"
  /\ arg.id = arg.schema.shape[1].number
  /\ arg.schema.shape[1].type = t_boolean
  /\ arg.tag \in {TRUE_, FALSE_}

\* the first turn of the loop of read_struct on the buffer
FirstTurn == read_struct_turn(NewReader(arg.buffer), arg.schema, EmptyObject)

(***************************************************************************)
(* C20.  Boolean field decode: for a field that the schema declares a      *)
(* boolean, the value read is true if the wire type tag of the field       *)
(* header is TRUE and false if it is FALSE, and the cursor after the field *)
(* is the cursor after its header.                                         *)
(***************************************************************************)
C20_BooleanFieldDecode ==
  BooleanRead =>
    /\ r.err = "none"
    /\ DOMAIN ret = {"a"}
    /\ ret.a = (arg.tag = TRUE_)
    /\ FirstTurn.r.err = "none"
    /\ FirstTurn.v = ret
    /\ FirstTurn.r.cursor = AfterHeader.cursor
    /\ AfterHeader.cursor = Len(WireHeader(arg.id, arg.tag))
    /\ r.cursor = AfterHeader.cursor + 1

\* a FALSE read as false, its header in the long form
C20_Witness ==
  /\ BooleanRead
  /\ arg.tag = FALSE_
  /\ arg.id = 16
  /\ ret.a = FALSE
  /\ r.cursor = 3

(***************************************************************************)
(* The field headers of one struct frame, written in any order of the      *)
(* field numbers by _write_field_begin and then read back, one read_field  *)
(* after another, by a reader on the bytes written.  ret is the sequence   *)
(* of the pairs that read_field returned.                                  *)
(***************************************************************************)
\* field numbers of the 16-bit range: gaps below and above 15, and numbers
\* on both sides of 2^15
RoundTripFieldNumbers == {1, 2, 17, 40, 32768, 65535}

RoundTripTypes == {TRUE_, FLOAT}

InitHeaders ==
  /\ w = NewWriter
  /\ r = NewReader(<<>>)
  /\ pc = "frame"
  /\ arg = [ids |-> <<>>, types |-> <<>>]
  /\ ret = <<>>

WriteAnyFieldBegin ==
  /\ pc = "frame"
  /\ Len(arg.ids) < MaxHeaders
  /\ \E id \in RoundTripFieldNumbers, type \in RoundTripTypes :
       /\ \A i \in 1..Len(arg.ids) : arg.ids[i] # id
       /\ w' = _write_field_begin(w, id, type)
       /\ arg' = [ids |-> Append(arg.ids, id),
                  types |-> Append(arg.types, type)]
  /\ UNCHANGED <<r, pc, ret>>

NewHeaderReader ==
  /\ pc = "frame"
  /\ Len(arg.ids) >= 1
  /\ w.err = "none"
  /\ r' = NewReader(w.buffer)
  /\ pc' = "read_field"
  /\ UNCHANGED <<w, arg, ret>>

ReadFieldHeader ==
  /\ pc = "read_field"
  /\ r.err = "none"
  /\ Len(ret) < Len(arg.ids)
  /\ \E f \in {read_field(r)} :
       /\ r' = f.r
       /\ ret' = Append(ret, <<f.type, f.id>>)
  /\ UNCHANGED <<w, pc, arg>>

NextHeaders ==
  \/ WriteAnyFieldBegin
  \/ NewHeaderReader
  \/ ReadFieldHeader

SpecHeaders == InitHeaders /\ [][NextHeaders]_vars

(***************************************************************************)
(* C21.  Field header round trip: for field numbers of 1..65535 written    *)
(* in any order in one struct frame by _write_field_begin, with type tags  *)
(* of 1..13, the writer raises no error and the read_field calls on the    *)
(* bytes written, from prev_field_id = 0 on, return the type tags and the  *)
(* field numbers that were written, in their order.                        *)
(***************************************************************************)
C21_FieldHeaderRoundTrip ==
  /\ w.err = "none"
  /\ pc = "read_field" =>
       /\ r.err = "none"
       /\ \A i \in 1..Len(ret) : ret[i] = <<arg.types[i], arg.ids[i]>>
       /\ Len(ret) = Len(arg.ids) => r.cursor = Len(r.buffer)

(***************************************************************************)
(* A list field written by write_list, and the reader on the bytes         *)
(* written: read_field for the header of the field, read_list_header for   *)
(* the header of the list.  ret is the pair read_list_header returned.     *)
(***************************************************************************)
MaxItems == 16

\* the lengths of the short form and, from 15 on, of the long form
ListLengths == 0..MaxItems

ListFieldNumbers == {1, 20}

ElementTypes == BYTE..STRUCT

\* an element that the writer accepts, for the types write_val writes
ElementOf(type) ==
  CASE type = INT_64 -> BigOfInt(7)
    [] type = BINARY -> [buf |-> <<>>]
    [] OTHER -> 7

InitList ==
  /\ w = NewWriter
  /\ r = NewReader(<<>>)
  /\ pc = "write_list"
  /\ \E id \in ListFieldNumbers, type \in ElementTypes, n \in ListLengths :
       arg = [id |-> id, type |-> type,
              val |-> [i \in 1..n |-> ElementOf(type)]]
  /\ ret = <<>>

WriteList ==
  /\ pc = "write_list"
  /\ w' = write_list(w, arg.id, arg.type, arg.val)
  /\ pc' = "read_field"
  /\ UNCHANGED <<r, arg, ret>>

ReadListField ==
  /\ pc = "read_field"
  /\ r' = read_field(NewReader(w.buffer)).r
  /\ pc' = "read_list_header"
  /\ UNCHANGED <<w, arg, ret>>

ReadListHeader ==
  /\ pc = "read_list_header"
  /\ \E h \in {read_list_header(r)} :
       /\ r' = h.r
       /\ ret' = <<h.type, h.length>>
  /\ pc' = "returned"
  /\ UNCHANGED <<w, arg>>

NextList ==
  \/ WriteList
  \/ ReadListField
  \/ ReadListHeader

SpecList == InitList /\ [][NextList]_vars

\* the header of a list of n elements of a type, by the definition of the
\* format
ListHeader(n, type) ==
  IF n < 15 THEN <<n * 16 + type>> ELSE <<240 + type>> \o VarintBytes(n)

\* the bytes of the header of a field of type LIST
ListFieldHeader(id) == IF id < 16 THEN 1 ELSE 1 + Len(VarintBytes(2 * id))

(***************************************************************************)
(* C22.  List header round trip: for a list of L elements of a type tag    *)
(* of 3..12, the bytes write_list writes after the header of the field     *)
(* begin with the one byte (L << 4) | tag when L < 15, and with the byte   *)
(* 0xF0 | tag and the varint of L when L >= 15, and read_list_header on    *)
(* those bytes returns the tag and L, with the cursor behind the header.   *)
(***************************************************************************)
C22_ListHeaderRoundTrip ==
  LET L == Len(arg.val)
      at == ListFieldHeader(arg.id)
      header == ListHeader(L, arg.type)
  IN /\ pc # "write_list" =>
          /\ Len(w.buffer) >= at + Len(header)
          /\ SubSeq(w.buffer, at + 1, at + Len(header)) = header
     /\ pc = "read_list_header" => r.err = "none" /\ r.cursor = at
     /\ pc = "returned" =>
          /\ r.err = "none"
          /\ ret = <<arg.type, L>>
          /\ r.cursor = at + Len(header)

C22_Witness ==
  /\ pc = "returned"
  /\ Len(arg.val) = 15
  /\ arg.type = STRUCT
  /\ Len(w.buffer) >= 3
  /\ w.buffer[2] = 240 + STRUCT
  /\ w.buffer[3] = 15
  /\ ret = <<STRUCT, 15>>

(***************************************************************************)
(* Decoding a buffer that ends early: the encoding of a struct of one      *)
(* field a, cut after its first arg.cut bytes, under the schema of the     *)
(* field.                                                                  *)
(***************************************************************************)
\* a kind of field a, the bytes of a value of it, and the number of those
\* bytes before which the value is not complete (the STOP of a struct value
\* is not counted)
TruncatedValues ==
  {<<"bool", <<>>, 0>>,
   <<"byte", <<7>>, 1>>,
   <<"i16", <<129, 1>>, 2>>,
   <<"i32", <<129, 1>>, 2>>,
   <<"i64", <<129, 1>>, 2>>,
   <<"string", <<2, 97, 98>>, 3>>,
   <<"binary", <<2, 97, 98>>, 3>>,
   <<"list<byte>", <<32 + BYTE, 7, 8>>, 3>>,
   <<"list<i32>", <<16 + INT_32, 129, 1>>, 3>>,
   <<"set<byte>", <<32 + BYTE, 7, 8>>, 3>>,
   <<"map<i16,byte>", <<1, INT_16 * 16 + BYTE, 2, 7>>, 4>>,
   <<"struct", <<32 + INT_16, 129, 1, STOP>>, 3>>}

\* the wire type tag of a value of the type; a boolean field is TRUE
TagOf(type) == IF type.thrift_type = BOOLEAN_ THEN TRUE_ ELSE type.thrift_type

InitTruncated ==
  /\ w = NewWriter
  /\ r = NewReader(<<>>)
  /\ pc = "truncated"
  /\ ret = <<>>
  /\ \E case \in TruncatedValues, number \in WireFieldNumbers :
       \E cut \in 1..(Len(WireHeader(number, TRUE_)) + Len(case[2])) :
         arg = [schema |-> t_struct(<<t_field("a", number, TypeOf(case[1]))>>),
                header |-> WireHeader(number, TagOf(TypeOf(case[1]))),
                buffer |-> WireHeader(number, TagOf(TypeOf(case[1])))
                             \o case[2] \o <<STOP>>,
                value |-> case[3],
                cut |-> cut]

ReadTruncated ==
  /\ pc = "truncated"
  /\ \E x \in {thriftReadToObject(SubSeq(arg.buffer, 1, arg.cut), arg.schema)} :
       /\ r' = x.r
       /\ ret' = x.v
  /\ pc' = "read"
  /\ UNCHANGED <<w, arg>>

NextTruncated == ReadTruncated

SpecTruncated == InitTruncated /\ [][NextTruncated]_vars

\* the buffer ends in the header of the field, after its first byte
CutInHeader == arg.cut < Len(arg.header)

\* the buffer ends behind the header of the field and before the end of
\* its value
CutInValue ==
  Len(arg.header) <= arg.cut /\ arg.cut < Len(arg.header) + arg.value

(***************************************************************************)
(* C23.  Truncated input is not decoded from bytes that are not there:     *)
(* the decoding of a buffer that ends in the header of a field or before   *)
(* the end of the field's value (a varint, a binary payload, the elements  *)
(* of a container, the fields of a struct) does not return without an      *)
(* error, and where a decoding has returned with the cursor at the end of  *)
(* the buffer, one more readByte raises an error and does not return the   *)
(* last byte again.                                                        *)
(***************************************************************************)
C23_TruncatedInput ==
  pc = "read" =>
    /\ (CutInHeader \/ CutInValue) => r.err # "none"
    /\ (r.err = "none" /\ r.cursor = Len(r.buffer)) =>
         readByte(r).r.err # "none"

====
